---------------------------- MODULE Spec2Model ----------------------------
(***************************************************************************)
(* GRIDMET Viewer and Downloader (ArboMAP), Google Earth Engine scripts.   *)
(*                                                                         *)
(*   v2.2  src/unnamed/part_000                  addVars, exportZonal      *)
(*   v2.1  src/code_GEE/GRIDMET_downloader_v2_1.js  addvars, exportzonal   *)
(*   v1.0  src/GRIDMET_downloader.js (second half)  mean_calc, stdev_calc, *)
(*                                                  anomcalc               *)
(*                                                                         *)
(* Pixel values, zonal means and climatological statistics are exact      *)
(* rationals <<num, den>> in lowest terms; a masked pixel is <<>>.         *)
(* A date is the number of days since 2000-01-01; a date text is           *)
(* <<year, month, day>>.                                                   *)
(***************************************************************************)
EXTENDS Integers, Sequences, FiniteSets, TLC

VARIABLES
    version,      \* which script is loaded: "v2.1" or "v2.2"
    gridmet,      \* ee.ImageCollection("IDAHO_EPSCOR/GRIDMET"): sequence of raw images
    fipsinput,    \* value of the state widget (v2.1 Textbox fipsinput, v2.2 Select fipsInput)
    sdinput,      \* value of the start-date Textbox
    edinput,      \* value of the end-date Textbox
    task,         \* <<the export task most recently submitted, evaluated>>, or <<>>
    rawImage,     \* <<one raw image of the store>>
    calcImage,    \* <<addVars of it>> once mapped, or <<>>
    history,      \* v1.0: the images of gridmet_calc
    current,      \* v1.0: <<the image handed to anomcalc>>
    anomaly,      \* v1.0: <<anomcalc of it>> once mapped, or <<>>
    frame,        \* <<an image handed to zonalSum on its own>>
    polygon,      \* <<the feature it is reduced over>>
    reduced,      \* <<the feature reduceRegions returns for it>>, or <<>>
    stage,        \* v1.0: how far the script has run
    baseline,     \* v1.0: <<mean_list and stdev_list>> once built, or <<>>
    gridmet_anom, \* v1.0: the images of gridmet_anom once mapped, or <<>>
    rerun,        \* v1.0: whether the script has been run before in this model
    mapLayers,    \* the layers of the map, in the order they were added
    mapWidgets,   \* v2.2: the download panels on the map, in the order added
    downloadPanel,\* v2.2: the panel the global downloadPanel refers to
    slider,       \* the viewer's selection: a day (v2.2) or <<year, doy>>
    pending,      \* one-pass build: the frames not yet accumulated
    shards,       \* one-pass build: the accumulators of each worker
    merged        \* one-pass build: <<the merged climatology>>, or <<>>

exportVars == <<version, gridmet, fipsinput, sdinput, edinput, task>>
deriveVars == <<rawImage, calcImage>>
climVars == <<history, current, anomaly>>
aggregateVars == <<frame, polygon, reduced>>
pipelineVars == <<stage, baseline, gridmet_anom, rerun>>
mapVars == <<mapLayers, mapWidgets, downloadPanel, slider>>
streamVars == <<pending, shards, merged>>

vars == <<exportVars, deriveVars, climVars, aggregateVars, pipelineVars,
          mapVars, streamVars>>

-----------------------------------------------------------------------------
(* Bounds of the model *)

\* number of consecutive days the raster store may hold frames for
NDays == 3

\* number of days, from 2000-01-01, from which addVars draws a frame date
DeriveDays == 740

\* number of years, from 2000, of which the v1.0 series holds the last two days
ClimYears == 3

\* the largest weight of a pixel in a polygon: the covered fractions are
\* 0/MaxCover .. MaxCover/MaxCover
MaxCover == 2

\* number of workers the days-of-year are dealt out to in the one-pass build
NWorkers == 2

\* number of download panels a session creates
MaxPanels == 2

-----------------------------------------------------------------------------
(* Values *)

\* a widget or script variable of a script that is not loaded
None == "None"

\* a masked pixel, an unset property, an empty CSV cell
NoData == <<>>

Abs(n) == IF n < 0 THEN -n ELSE n

RECURSIVE GCD(_, _)
GCD(a, b) == IF b = 0 THEN a ELSE GCD(b, a % b)

\* the number n/d (d # 0): <<numerator, denominator>> in lowest terms, with a
\* positive denominator
Rat(n, d) ==
    LET g == GCD(Abs(n), Abs(d))
        s == IF d < 0 THEN -1 ELSE 1
    IN  <<(s * n) \div g, (s * d) \div g>>

\* sums and differences are taken over the least common denominator
RAdd(a, b) ==
    LET g == GCD(a[2], b[2])
    IN  Rat(a[1] * (b[2] \div g) + b[1] * (a[2] \div g), (a[2] \div g) * b[2])
RSub(a, b) ==
    LET g == GCD(a[2], b[2])
    IN  Rat(a[1] * (b[2] \div g) - b[1] * (a[2] \div g), (a[2] \div g) * b[2])
RMul(a, b) == Rat(a[1] * b[1], a[2] * b[2])
\* a / b for b # 0
RDiv(a, b) == Rat(a[1] * b[2], a[2] * b[1])
RLeq(a, b) == a[1] * b[2] <= b[1] * a[2]
Zero == Rat(0, 1)

RECURSIVE RSum(_)
RSum(s) == IF s = <<>> THEN Zero ELSE RAdd(Head(s), RSum(Tail(s)))

RECURSIVE RSumOver(_, _)
RSumOver(S, f) ==
    IF S = {} THEN Zero
    ELSE LET x == CHOOSE x \in S : TRUE IN RAdd(f[x], RSumOver(S \ {x}, f))

SelectValid(s) == SelectSeq(s, LAMBDA v : v # NoData)

-----------------------------------------------------------------------------
(* ee.Date: the calendar *)

\* startDate = ee.Date('2000-01-01'): day 0
EpochYear == 2000

IsLeap(y) == (y % 4 = 0 /\ y % 100 # 0) \/ y % 400 = 0

DaysInYear(y) == IF IsLeap(y) THEN 366 ELSE 365

DaysInMonth(y, m) ==
    CASE m \in {4, 6, 9, 11} -> 30
      [] m = 2 -> IF IsLeap(y) THEN 29 ELSE 28
      [] OTHER -> 31

RECURSIVE DaysBeforeYear(_)
DaysBeforeYear(y) ==
    IF y <= EpochYear THEN 0 ELSE DaysBeforeYear(y - 1) + DaysInYear(y - 1)

RECURSIVE DaysBeforeMonth(_, _)
DaysBeforeMonth(y, m) ==
    IF m <= 1 THEN 0 ELSE DaysBeforeMonth(y, m - 1) + DaysInMonth(y, m - 1)

\* ee.Date(text) for a text 'YYYY-MM-dd'
ParseDate(t) == DaysBeforeYear(t[1]) + DaysBeforeMonth(t[1], t[2]) + (t[3] - 1)

RECURSIVE YearFrom(_, _)
YearFrom(d, y) ==
    IF d < DaysInYear(y) THEN y ELSE YearFrom(d - DaysInYear(y), y + 1)

\* date.get('year')
DateGetYear(d) == YearFrom(d, EpochYear)

\* date.getRelative('day', 'year'): 0-based day within the year
GetRelativeDayOfYear(d) == d - DaysBeforeYear(DateGetYear(d))

RECURSIVE MonthFrom(_, _, _)
MonthFrom(r, y, m) ==
    IF r < DaysInMonth(y, m) THEN m ELSE MonthFrom(r - DaysInMonth(y, m), y, m + 1)

\* date.get('month')
DateGetMonth(d) == MonthFrom(GetRelativeDayOfYear(d), DateGetYear(d), 1)

\* date.get('day')
DateGetDay(d) ==
    GetRelativeDayOfYear(d)
        - DaysBeforeMonth(DateGetYear(d), DateGetMonth(d)) + 1

\* date.format('YYYY-MM-dd')
FormatDate(d) == <<DateGetYear(d), DateGetMonth(d), DateGetDay(d)>>

\* date.advance(n, 'days')
AdvanceDays(d, n) == d + n

\* date.advance(-1, 'months'): same day of the previous month, clamped
AdvanceMinusOneMonth(d) ==
    LET y  == DateGetYear(d)
        m  == DateGetMonth(d)
        py == IF m = 1 THEN y - 1 ELSE y
        pm == IF m = 1 THEN 12 ELSE m - 1
        dd == IF DateGetDay(d) > DaysInMonth(py, pm)
              THEN DaysInMonth(py, pm) ELSE DateGetDay(d)
    IN  ParseDate(<<py, pm, dd>>)

-----------------------------------------------------------------------------
(* ee.Image: [index, time_start, bands: name -> pixel -> value, props] *)

\* Pixels 1 and 2 lie on the GRIDMET grid; pixel 3 lies outside its footprint,
\* where every GRIDMET band is masked.
Pixels == {1, 2, 3}
GridPixels == {1, 2}

\* the bands of the GRIDMET asset the scripts read, and one they do not
GridmetBands == {"pr", "rmax", "rmin", "tmmn", "tmmx", "vpd", "vs", "srad"}

ImgSelectKeepsAll(image, names) == image

\* image.select(names): keep the named bands
ImgSelect(image, names) ==
    [image EXCEPT !.bands = [b \in names |-> image.bands[b]]]

\* image.select(old, new): keep the bands old[i], named new[i]
ImgSelectRename(image, old, new) ==
    [image EXCEPT !.bands =
        [b \in {new[i] : i \in DOMAIN new} |->
            image.bands[old[CHOOSE i \in DOMAIN new : new[i] = b]]]]

\* image.addBands(band.rename(name))
ImgAddBand(image, name, band) ==
    [image EXCEPT !.bands =
        [b \in DOMAIN image.bands \cup {name} |->
            IF b = name /\ name \notin DOMAIN image.bands THEN band
            ELSE image.bands[b]]]

\* image.set(key, value)
ImgSet(image, key, value) ==
    [image EXCEPT !.props =
        [k \in DOMAIN image.props \cup {key} |->
            IF k = key THEN value ELSE image.props[k]]]

\* band.subtract(c): a masked pixel stays masked
BandSubtract(band, c) ==
    [p \in Pixels |-> IF band[p] = NoData THEN NoData ELSE RSub(band[p], c)]

\* ee.Reducer.mean() over the values of one pixel in several bands
ReducerMean(values) ==
    LET valid == SelectValid(values)
    IN  IF valid = <<>> THEN NoData ELSE RDiv(RSum(valid), Rat(Len(valid), 1))

\* ee.Image([a, b]).reduce(ee.Reducer.mean()) and
\* image.select([a, b]).reduce(ee.Reducer.mean())
BandsReduceMean(a, b) == [p \in Pixels |-> ReducerMean(<<a[p], b[p]>>)]

ImgMetadataMaskedOffGrid(image, key) ==
    [p \in Pixels |-> IF p \in GridPixels THEN Rat(image.props[key], 1) ELSE NoData]

\* image.metadata(key): a constant image, unmasked everywhere
ImgMetadata(image, key) == [p \in Pixels |-> Rat(image.props[key], 1)]

K273 == Rat(273, 1)

\* 273.15
K273_15 == Rat(27315, 100)

-----------------------------------------------------------------------------
(* Step 2: the summary variables *)

CalcBands == {"rmean", "tminc", "tmaxc", "tmeanc", "pr", "vpd", "vs"}

\* gridmet.filterDate(..).select([..'tmmn','tmmx'..], [..'tmin','tmax'..]), per image
SelectVariables(image) ==
    ImgSelectRename(image,
        <<"pr", "rmax", "rmin", "tmmn", "tmmx", "vpd", "vs">>,
        <<"pr", "rmax", "rmin", "tmin", "tmax", "vpd", "vs">>)

addVarsZeroBasedDoy(image) ==
    LET rmean   == BandsReduceMean(image.bands["rmax"], image.bands["rmin"])
        tminc   == BandSubtract(image.bands["tmin"], K273_15)
        tmaxc   == BandSubtract(image.bands["tmax"], K273_15)
        tmeanc  == BandsReduceMean(tminc, tmaxc)
        curdate == image.time_start
        added   == ImgAddBand(ImgAddBand(ImgAddBand(ImgAddBand(image,
                       "rmean", rmean), "tminc", tminc), "tmaxc", tmaxc),
                       "tmeanc", tmeanc)
    IN  ImgSet(ImgSet(ImgSelect(added, CalcBands),
                      "doy", GetRelativeDayOfYear(curdate)),
               "year", DateGetYear(curdate))

\* addVars (v2.2) and addvars (v2.1, v2.0): the same text
addVars(image) ==
    LET rmean   == BandsReduceMean(image.bands["rmax"], image.bands["rmin"])
        tminc   == BandSubtract(image.bands["tmin"], K273_15)
        tmaxc   == BandSubtract(image.bands["tmax"], K273_15)
        tmeanc  == BandsReduceMean(tminc, tmaxc)
        curdate == image.time_start
        curyear == DateGetYear(curdate)
        curdoy  == GetRelativeDayOfYear(curdate) + 1
        added   == ImgAddBand(ImgAddBand(ImgAddBand(ImgAddBand(image,
                       "rmean", rmean), "tminc", tminc), "tmaxc", tmaxc),
                       "tmeanc", tmeanc)
    IN  ImgSet(ImgSet(ImgSelect(added, CalcBands), "doy", curdoy),
               "year", curyear)

\* gridmetCalculated = gridmetFiltered.map(addVars), per image of the store
Calculated(image) == addVars(SelectVariables(image))

-----------------------------------------------------------------------------
(* Raster store: the images of the GRIDMET asset *)

\* value of a band at pixel 1, in hundredths; v gives the bands that vary
BandValue(b, v) ==
    CASE b = "tmmn" -> v.tmmn
      [] b = "tmmx" -> v.tmmx
      [] b = "rmin" -> v.rmin
      [] b = "rmax" -> 8000
      [] b = "pr"   -> v.pr
      [] b = "vpd"  -> 120
      [] b = "vs"   -> 350
      [] b = "srad" -> 20000

\* the image of one day; pixel 2 differs from pixel 1 by 0.1
GridmetImage(day, v) ==
    [index      |-> FormatDate(day),
     time_start |-> day,
     props      |-> <<>>,
     bands      |-> [b \in GridmetBands |->
                       [p \in Pixels |->
                          IF p \in v.masked THEN NoData
                          ELSE Rat(BandValue(b, v) + 10 * (p - 1), 100)]]]

\* raw values addVars is tried on: 263.15 and 273.2 K, 278.15 and 293.15 K,
\* 20% and 30.5%, 0 and 2.5 mm; pixel 2 masked or not
RawInputs ==
    [tmmn : {26315, 27320}, tmmx : {27815, 29315}, rmin : {2000, 3050},
     pr : {0, 250}, masked : {{3}, {2, 3}}]

-----------------------------------------------------------------------------
(* Specification SpecDerive: addVars mapped over one image *)

IdleExport ==
    /\ version = None /\ gridmet = <<>> /\ fipsinput = None
    /\ sdinput = None /\ edinput = None /\ task = <<>>

IdleDerive == rawImage = <<>> /\ calcImage = <<>>

IdleClimatology == history = <<>> /\ current = <<>> /\ anomaly = <<>>

IdleAggregate == frame = <<>> /\ polygon = <<>> /\ reduced = <<>>

IdlePipeline ==
    stage = None /\ baseline = <<>> /\ gridmet_anom = <<>> /\ rerun = FALSE

IdleMap ==
    mapLayers = <<>> /\ mapWidgets = <<>> /\ downloadPanel = None /\ slider = None

IdleStream == pending = {} /\ shards = <<>> /\ merged = <<>>

InitDerive ==
    /\ IdleExport
    /\ IdleClimatology
    /\ IdleAggregate
    /\ IdlePipeline
    /\ IdleMap
    /\ IdleStream
    /\ \E day \in 0 .. (DeriveDays - 1), v \in RawInputs :
          rawImage = <<GridmetImage(day, v)>>
    /\ calcImage = <<>>

\* gridmetFiltered.map(addVars) evaluated on the image
MapAddVars ==
    /\ Len(rawImage) = 1
    /\ Len(calcImage) = 0
    /\ calcImage' = <<Calculated(rawImage[1])>>
    /\ UNCHANGED <<exportVars, rawImage, climVars, aggregateVars, pipelineVars, mapVars, streamVars>>

NextDerive == MapAddVars

SpecDerive == InitDerive /\ [][NextDerive]_vars

-----------------------------------------------------------------------------
(* Reference data: TIGER/2016/Counties and TIGER/2016/States *)

\* Features in the order of the collection, which is not the order of GEOID.
\* cover[p] is the fraction, in halves, of pixel p that lies inside the county.
\* Juneau (Alaska) and Honolulu (Hawaii) lie outside the GRIDMET grid.
counties ==
    << [index |-> "c1", cover |-> [p \in Pixels |-> CASE p = 1 -> 2 [] p = 2 -> 1 [] OTHER -> 0],
        props |-> [NAME |-> "Minnehaha", GEOID |-> "46099", STATEFP |-> "46"]],
       [index |-> "c2", cover |-> [p \in Pixels |-> CASE p = 2 -> 1 [] OTHER -> 0],
        props |-> [NAME |-> "Lincoln", GEOID |-> "46083", STATEFP |-> "46"]],
       [index |-> "c3", cover |-> [p \in Pixels |-> CASE p = 3 -> 2 [] OTHER -> 0],
        props |-> [NAME |-> "Juneau", GEOID |-> "02110", STATEFP |-> "02"]],
       [index |-> "c4", cover |-> [p \in Pixels |-> CASE p = 3 -> 1 [] OTHER -> 0],
        props |-> [NAME |-> "Honolulu", GEOID |-> "15003", STATEFP |-> "15"]] >>

\* a state name is its words and the white space between them
SouthDakota == <<"South", " ", "Dakota">>

states ==
    << [NAME |-> SouthDakota, STATEFP |-> "46"],
       [NAME |-> <<"Alaska">>, STATEFP |-> "02"],
       [NAME |-> <<"Hawaii">>, STATEFP |-> "15"] >>

notConus == {"2", "15", "60", "66", "69", "72", "78"}

\* states.filter(ee.Filter.inList('STATEFP', notConus).not())
conusStates == SelectSeq(states, LAMBDA st : st.STATEFP \notin notConus)

\* ee.Dictionary.fromLists(NAME, STATEFP): state name -> state code
stateDictionary ==
    [n \in {conusStates[i].NAME : i \in DOMAIN conusStates} |->
        conusStates[CHOOSE i \in DOMAIN conusStates : conusStates[i].NAME = n].STATEFP]

FilterStateByGeoid(code) == SelectSeq(counties, LAMBDA c : c.props.GEOID = code)

\* counties.filter(ee.Filter.eq('STATEFP', code))
FilterState(code) == SelectSeq(counties, LAMBDA c : c.props.STATEFP = code)

-----------------------------------------------------------------------------
(* Step 3: the zonal statistics *)

FilterDateEndInclusive(collection, start, end) ==
    SelectSeq(collection,
              LAMBDA im : start <= im.time_start /\ im.time_start <= end)

\* collection.filterDate(start, end): start inclusive, end exclusive
FilterDate(collection, start, end) ==
    SelectSeq(collection,
              LAMBDA im : start <= im.time_start /\ im.time_start < end)

WeightedMeanCountsMasked(band, cover) ==
    LET seen == {p \in Pixels : cover[p] > 0 /\ band[p] # NoData}
        all  == {p \in Pixels : cover[p] > 0}
        num  == RSumOver(seen, [p \in seen |-> RMul(Rat(cover[p], 1), band[p])])
        den  == RSumOver(all, [p \in all |-> Rat(cover[p], 1)])
    IN  IF seen = {} THEN NoData ELSE RDiv(num, den)

WeightedMeanZeroWhenEmpty(band, cover) ==
    LET seen == {p \in Pixels : cover[p] > 0 /\ band[p] # NoData}
        num  == RSumOver(seen, [p \in seen |-> RMul(Rat(cover[p], 1), band[p])])
        den  == RSumOver(seen, [p \in seen |-> Rat(cover[p], 1)])
    IN  IF seen = {} THEN Zero ELSE RDiv(num, den)

\* ee.Reducer.mean() in reduceRegions: the mean of the unmasked pixels that
\* intersect the region, weighted by the covered fraction; null without any
WeightedMean(band, cover) ==
    LET seen == {p \in Pixels : cover[p] > 0 /\ band[p] # NoData}
        num  == RSumOver(seen, [p \in seen |-> RMul(Rat(cover[p], 1), band[p])])
        den  == RSumOver(seen, [p \in seen |-> Rat(cover[p], 1)])
    IN  IF seen = {} THEN NoData ELSE RDiv(num, den)

\* feature with the band means added as properties; a null mean sets nothing
ReduceRegion(image, feature) ==
    LET means == [b \in DOMAIN image.bands |->
                    WeightedMean(image.bands[b], feature.cover)]
        set   == {b \in DOMAIN image.bands : means[b] # NoData}
    IN  [index |-> feature.index,
         props |-> [k \in DOMAIN feature.props \cup set |->
                      IF k \in set THEN means[k] ELSE feature.props[k]]]

ReduceRegionsDropsEmpty(image, collection) ==
    LET kept == SelectSeq(collection,
                    LAMBDA f : \E p \in Pixels :
                        f.cover[p] > 0 /\ image.bands["tmeanc"][p] # NoData)
    IN  [i \in DOMAIN kept |-> ReduceRegion(image, kept[i])]

\* image.reduceRegions({collection, reducer: ee.Reducer.mean()}):
\* one feature per feature of the collection, in its order
ReduceRegions(image, collection) ==
    [i \in DOMAIN collection |-> ReduceRegion(image, collection[i])]

ZonalBands == {"tmeanc", "tminc", "tmaxc", "pr", "rmean", "vpd", "vs", "doy", "year"}

\* zonalSum (v2.2) and zonalsum (v2.1): the same text
zonalSum(image, selectedState) ==
    LET image2 == ImgAddBand(ImgAddBand(image,
                      "doy", ImgMetadata(image, "doy")),
                      "year", ImgMetadata(image, "year"))
        output == ReduceRegions(ImgSelect(image2, ZonalBands), selectedState)
    IN  [image  |-> image.index, features |-> output]

RECURSIVE FlattenLastFirst(_)
FlattenLastFirst(collections) ==
    IF collections = <<>> THEN <<>>
    ELSE LET c == Head(collections)
         IN  FlattenLastFirst(Tail(collections))
             \o [i \in DOMAIN c.features |->
                   [index |-> <<c.image, c.features[i].index>>,
                    props |-> c.features[i].props]]

RECURSIVE Flatten(_)
\* collection.flatten(): the features of every collection, in order; the id
\* of a feature is the id of its collection followed by its own
Flatten(collections) ==
    IF collections = <<>> THEN <<>>
    ELSE LET c == Head(collections)
         IN  [i \in DOMAIN c.features |->
                [index |-> <<c.image, c.features[i].index>>,
                 props |-> c.features[i].props]]
             \o Flatten(Tail(collections))

SelectPropertiesKeepsNames(feature, old, new) ==
    LET kept == {i \in DOMAIN old : old[i] \in DOMAIN feature.props}
    IN  [index |-> feature.index,
         props |-> [k \in {old[i] : i \in kept} |-> feature.props[k]]]

\* feature.select(old, new, false): the properties old[i] that are set,
\* named new[i]
SelectProperties(feature, old, new) ==
    LET kept == {i \in DOMAIN old : old[i] \in DOMAIN feature.props}
    IN  [index |-> feature.index,
         props |-> [k \in {new[i] : i \in kept} |->
                      feature.props[old[CHOOSE i \in kept : new[i] = k]]]]

-----------------------------------------------------------------------------
(* Specification Spec: the downloader, v2.1 and v2.2 *)

\* the first day the store may hold: 2000-12-30, so that the days of the
\* store cross the end of a leap year
WindowFirst == ParseDate(<<2000, 12, 30>>)
Window == WindowFirst .. (WindowFirst + NDays - 1)

\* the days of the window a store may lack: any but the first and the last
InnerDays == Window \ {WindowFirst, WindowFirst + NDays - 1}

\* Date.now(): later than every image of the store
now == WindowFirst + NDays

\* the images of the days in `present`, in the order of the asset (by date)
StoreSeries(present) ==
    LET days == SelectSeq([i \in 1 .. NDays |-> WindowFirst + i - 1],
                          LAMBDA d : d \in present)
    IN  [i \in DOMAIN days |->
           GridmetImage(days[i],
               [tmmn |-> 27000 + 100 * (days[i] % 4),
                tmmx |-> 28500 + 50 * (days[i] % 3),
                rmin |-> 3000 + 10 * (days[i] % 5),
                pr   |-> 125 * (days[i] % 2),
                masked |-> Pixels \ GridPixels])]

RECURSIVE MaxTimeStart(_)
\* gridmet.reduceColumns(ee.Reducer.max(), ['system:time_start'])
MaxTimeStart(collection) ==
    IF Len(collection) = 1 THEN collection[1].time_start
    ELSE LET m == MaxTimeStart(Tail(collection))
         IN  IF collection[1].time_start > m THEN collection[1].time_start ELSE m

startDate == ParseDate(<<2000, 1, 1>>)
maxDate == MaxTimeStart(gridmet)
\* v2.2: filters are end date exclusive, so a day is added
endDate == AdvanceDays(maxDate, 1)

\* one image for every day of the window, all masked where the store has none
gridmetFilteredPadded ==
    [i \in 1 .. NDays |->
        LET d == WindowFirst + i - 1
        IN  IF \E k \in DOMAIN gridmet : gridmet[k].time_start = d
            THEN SelectVariables(gridmet[CHOOSE k \in DOMAIN gridmet :
                                            gridmet[k].time_start = d])
            ELSE SelectVariables(GridmetImage(d,
                     [tmmn |-> 0, tmmx |-> 0, rmin |-> 0, pr |-> 0,
                      masked |-> Pixels]))]

\* the bands select([..]) asks of an image of the store
RequiredBands == {"pr", "rmax", "rmin", "tmmn", "tmmx", "vpd", "vs"}

\* what select([..]), and every function mapped over it, evaluates to for an
\* image that lacks one of the bands: the error "Pattern did not match any
\* bands" in place of the image
FailedImage(image) ==
    [index |-> image.index, time_start |-> image.time_start,
     error |-> [image |-> image.index,
                band  |-> CHOOSE b \in RequiredBands : b \notin DOMAIN image.bands]]

IsError(image) == "error" \in DOMAIN image

\* select([..], [..]) on one image of the collection
SelectOrFail(image) ==
    IF RequiredBands \subseteq DOMAIN image.bands THEN SelectVariables(image)
    ELSE FailedImage(image)

\* v2.2
gridmetFilteredSkipsFailed ==
    LET filtered == SelectSeq(FilterDate(gridmet, startDate, endDate),
                              LAMBDA im : RequiredBands \subseteq DOMAIN im.bands)
    IN  [i \in DOMAIN filtered |-> SelectVariables(filtered[i])]
gridmetFiltered ==
    LET filtered == FilterDate(gridmet, startDate, endDate)
    IN  [i \in DOMAIN filtered |-> SelectOrFail(filtered[i])]
gridmetCalculated ==
    [i \in DOMAIN gridmetFiltered |->
        IF IsError(gridmetFiltered[i]) THEN gridmetFiltered[i]
        ELSE addVars(gridmetFiltered[i])]

\* v2.1
gridmet_filt ==
    LET filtered == FilterDate(gridmet, startDate, now)
    IN  [i \in DOMAIN filtered |-> SelectOrFail(filtered[i])]
gridmet_calc ==
    [i \in DOMAIN gridmet_filt |->
        IF IsError(gridmet_filt[i]) THEN gridmet_filt[i]
        ELSE addVars(gridmet_filt[i])]

\* whether the evaluation of a collection filtered out of a mapped one fails:
\* it does when an image of it is an error; when only an image that the
\* filter drops is an error, either may happen
Outcomes(filtered, mapped) ==
    IF \E i \in DOMAIN filtered : IsError(filtered[i]) THEN {TRUE}
    ELSE IF \E i \in DOMAIN mapped : IsError(mapped[i]) THEN {TRUE, FALSE}
    ELSE {FALSE}

\* the error an evaluation fails with: that of the first failed image
FirstError(filtered, mapped) ==
    LET errors == SelectSeq(filtered \o mapped, IsError)
    IN  <<errors[1].error>>

\* stateNameString.replace(/\s/g, "")
RemoveWhitespace(name) == SelectSeq(name, LAMBDA w : w # " ")

\* texts a user types into the date boxes
DateTexts == {FormatDate(d) : d \in WindowFirst .. (WindowFirst + NDays)}

\* texts a user types into the v2.1 state box
FipsTexts == {"46", "02", "999"}

Init ==
    /\ IdleDerive
    /\ IdleClimatology
    /\ IdleAggregate
    /\ IdlePipeline
    /\ IdleMap
    /\ IdleStream
    /\ version \in {"v2.1", "v2.2"}
    /\ \E missing \in SUBSET InnerDays : gridmet = StoreSeries(Window \ missing)
    /\ fipsinput = IF version = "v2.2" THEN SouthDakota ELSE "46"
    /\ sdinput = IF version = "v2.2"
                 THEN FormatDate(AdvanceMinusOneMonth(maxDate))
                 ELSE FormatDate(AdvanceMinusOneMonth(now))
    /\ edinput = IF version = "v2.2" THEN FormatDate(maxDate) ELSE FormatDate(now)
    /\ task = <<>>

\* the user edits the start-date box
SetStartDate ==
    /\ \E t \in DateTexts : sdinput' = t
    /\ UNCHANGED <<version, gridmet, fipsinput, edinput, task,
                   deriveVars, climVars, aggregateVars, pipelineVars, mapVars, streamVars>>

\* the user edits the end-date box
SetEndDate ==
    /\ \E t \in DateTexts : edinput' = t
    /\ UNCHANGED <<version, gridmet, fipsinput, sdinput, task,
                   deriveVars, climVars, aggregateVars, pipelineVars, mapVars, streamVars>>

\* v2.1: the user types a state code; v2.2: the user picks a state name
SetFips ==
    /\ \/ version = "v2.1" /\ \E t \in FipsTexts : fipsinput' = t
       \/ version = "v2.2" /\ \E n \in DOMAIN stateDictionary : fipsinput' = n
    /\ UNCHANGED <<version, gridmet, sdinput, edinput, task,
                   deriveVars, climVars, aggregateVars, pipelineVars, mapVars, streamVars>>

\* exportZonal of v2.2 up to Export.table.toDrive: the task it submits, as
\* the evaluation of its collection may turn out
exportZonalTasks ==
    LET stateNameString == fipsinput
        stateFips       == stateDictionary[stateNameString]
        selectedState   == FilterState(stateFips)
        userStartDateText == sdinput
        userEndDateText   == edinput
        userStartDate   == ParseDate(userStartDateText)
        userEndReqDate  == ParseDate(userEndDateText)
        userEndDate     == AdvanceDays(userEndReqDate, 1)
        gridmetSummarized ==
            FilterDate(gridmetCalculated, userStartDate, userEndDate)
        countiesSum ==
            [i \in DOMAIN gridmetSummarized |->
                zonalSum(gridmetSummarized[i], selectedState)]
        oldNames == <<"NAME", "GEOID", "doy", "year",
                      "tminc", "tmeanc", "tmaxc", "pr", "rmean", "vpd", "vs">>
        newNames == <<"district", "fips", "doy", "year",
                      "tminc", "tmeanc", "tmaxc", "pr", "rmean", "vpd", "vs">>
        flat == Flatten(countiesSum)
        exportData ==
            [i \in DOMAIN flat |-> SelectProperties(flat[i], oldNames, newNames)]
        outputFilename ==
            <<"gridmet", "_", RemoveWhitespace(stateNameString),
              "_", userStartDateText, "_", userEndDateText>>
    IN  { [collection  |-> IF fails THEN <<>> ELSE exportData,
           error       |-> IF fails
                           THEN FirstError(gridmetSummarized, gridmetCalculated)
                           ELSE <<>>,
           description |-> outputFilename,
           selectors   |-> newNames,
           state       |-> stateFips,
           regions     |-> Len(selectedState),
           start       |-> userStartDateText,
           end         |-> userEndDateText] :
          fails \in Outcomes(gridmetSummarized, gridmetCalculated) }

\* v2.2: click on 'Click for summary downloads', as far as the table goes
\* (what the click puts on the map is followed in SpecMap)
exportZonal ==
    /\ version = "v2.2"
    /\ \E t \in exportZonalTasks : task' = <<t>>
    /\ UNCHANGED <<version, gridmet, fipsinput, sdinput, edinput,
                   deriveVars, climVars, aggregateVars, pipelineVars, mapVars, streamVars>>

\* v2.1: click on 'Click to Generate Task for Download Summary'
exportzonal ==
    /\ version = "v2.1"
    /\ LET stateFIPS == fipsinput
           sumstate  == FilterState(stateFIPS)
           sdtext    == sdinput
           edtext    == edinput
           sddate    == ParseDate(sdtext)
           eddate    == ParseDate(edtext)
           gridmet_sum == FilterDate(gridmet_calc, sddate, eddate)
           cnty_sum ==
               [i \in DOMAIN gridmet_sum |-> zonalSum(gridmet_sum[i], sumstate)]
           oldnames == <<"NAME", "doy", "year",
                         "tminc", "tmeanc", "tmaxc", "pr", "rmean", "vpd", "vs">>
           newnames == <<"district", "doy", "year",
                         "tminc", "tmeanc", "tmaxc", "pr", "rmean", "vpd", "vs">>
           flat  == Flatten(cnty_sum)
           newdf == [i \in DOMAIN flat |-> SelectProperties(flat[i], oldnames, newnames)]
           outputFilename ==
               <<"export_data", "_fips", stateFIPS, "_", sdtext, "_", edtext>>
       IN  \E fails \in Outcomes(gridmet_sum, gridmet_calc) :
           task' = << [collection  |-> IF fails THEN <<>> ELSE newdf,
                       error       |-> IF fails
                                       THEN FirstError(gridmet_sum, gridmet_calc)
                                       ELSE <<>>,
                       description |-> outputFilename,
                       selectors   |-> newnames,
                       state       |-> stateFIPS,
                       regions     |-> Len(sumstate),
                       start       |-> sdtext,
                       end         |-> edtext] >>
    /\ UNCHANGED <<version, gridmet, fipsinput, sdinput, edinput,
                   deriveVars, climVars, aggregateVars, pipelineVars, mapVars, streamVars>>

Next ==
    \/ SetStartDate
    \/ SetEndDate
    \/ SetFips
    \/ exportZonal
    \/ exportzonal

Spec == Init /\ [][Next]_vars

-----------------------------------------------------------------------------
(* Specification SpecBroken: the downloader on a store of which one image
   lacks a band *)

\* the bands an image of the store may lack: one that select([..]) asks
\* for, and one that no script reads
LackedBands == {"rmax", "srad"}

\* the image without the band
WithoutBand(image, band) ==
    [image EXCEPT !.bands = [b \in DOMAIN image.bands \ {band} |-> image.bands[b]]]

InitBroken ==
    /\ IdleDerive
    /\ IdleClimatology
    /\ IdleAggregate
    /\ IdlePipeline
    /\ IdleMap
    /\ IdleStream
    /\ version \in {"v2.1", "v2.2"}
    /\ \E k \in 1 .. NDays, band \in LackedBands :
          gridmet = [i \in 1 .. NDays |->
                        IF i = k THEN WithoutBand(StoreSeries(Window)[i], band)
                        ELSE StoreSeries(Window)[i]]
    /\ fipsinput = IF version = "v2.2" THEN SouthDakota ELSE "46"
    /\ sdinput = IF version = "v2.2"
                 THEN FormatDate(AdvanceMinusOneMonth(maxDate))
                 ELSE FormatDate(AdvanceMinusOneMonth(now))
    /\ edinput = IF version = "v2.2" THEN FormatDate(maxDate) ELSE FormatDate(now)
    /\ task = <<>>

NextBroken ==
    \/ SetStartDate
    \/ SetEndDate
    \/ exportZonal
    \/ exportzonal

SpecBroken == InitBroken /\ [][NextBroken]_vars

-----------------------------------------------------------------------------
(* Specification SpecAggregate: zonalSum on a frame of constant bands *)

\* the values of a constant frame: 0, -2.5, 1/3, 293.15
ConstantValues == {Rat(0, 1), Rat(-5, 2), Rat(1, 3), Rat(29315, 100)}

\* a derived frame whose bands all have the value v at every unmasked pixel,
\* but for pr, which grows with the pixel
ConstantImage(day, v, masked) ==
    [index      |-> FormatDate(day),
     time_start |-> day,
     props      |-> [doy |-> GetRelativeDayOfYear(day) + 1, year |-> DateGetYear(day)],
     bands      |-> [b \in CalcBands |->
                       [p \in Pixels |->
                          IF p \in masked THEN NoData
                          ELSE IF b = "pr" THEN RAdd(v, Rat(p, 1)) ELSE v]]]

InitAggregate ==
    /\ IdleExport
    /\ IdleDerive
    /\ IdleClimatology
    /\ IdlePipeline
    /\ IdleMap
    /\ IdleStream
    /\ \E v \in ConstantValues, masked \in SUBSET Pixels :
          frame = <<ConstantImage(WindowFirst, v, masked)>>
    /\ \E cover \in [Pixels -> 0 .. MaxCover] :
          polygon = <<[index |-> "c1", cover |-> cover,
                       props |-> [NAME |-> "Minnehaha", GEOID |-> "46099",
                                  STATEFP |-> "46"]]>>
    /\ reduced = <<>>

\* zonalSum of the frame over the polygon
MapZonalSum ==
    /\ Len(frame) = 1
    /\ Len(reduced) = 0
    /\ reduced' = <<zonalSum(frame[1], polygon).features[1]>>
    /\ UNCHANGED <<exportVars, deriveVars, climVars, frame, polygon, pipelineVars, mapVars, streamVars>>

NextAggregate == MapZonalSum

SpecAggregate == InitAggregate /\ [][NextAggregate]_vars

-----------------------------------------------------------------------------
(* v1.0, Step 2 and Step 3: derived variables and climate anomalies *)

\* A standard deviation or an anomaly is sign * sqrt(n/d), held as
\* <<sign, n, d>> with n/d in lowest terms; 0 is <<0, 0, 1>>.
SignedRoot(sign, square) ==
    IF square[1] = 0 THEN <<0, 0, 1>> ELSE <<sign, square[1], square[2]>>

Sign(a) == IF a[1] > 0 THEN 1 ELSE IF a[1] < 0 THEN -1 ELSE 0

RECURSIVE Log2(_)
Log2(n) == IF n <= 1 THEN 0 ELSE 1 + Log2(n \div 2)

\* image.log(): logarithms are held in units of ln 2, the precipitation values
\* of the series being 0 and powers of 2; zero precipitation becomes no data
BandLog(band) ==
    [p \in Pixels |->
        IF band[p] = NoData \/ band[p] = Zero THEN NoData
        ELSE Rat(Log2(band[p][1]), 1)]

\* gridmet.filterDate(..).select([..], [..]) of v1.0: no 'vs'
SelectVariablesV1(image) ==
    ImgSelectRename(image,
        <<"pr", "rmax", "rmin", "tmmn", "tmmx", "vpd">>,
        <<"pr", "rmax", "rmin", "tmin", "tmax", "vpd">>)

addvarsZeroBasedDoy(image) ==
    LET rmean   == BandsReduceMean(image.bands["rmax"], image.bands["rmin"])
        tminc   == BandSubtract(image.bands["tmin"], K273_15)
        tmaxc   == BandSubtract(image.bands["tmax"], K273_15)
        tmeanc  == BandsReduceMean(tminc, tmaxc)
        logpr   == BandLog(image.bands["pr"])
        curdate == image.time_start
        curyear == DateGetYear(curdate)
        curdoy  == GetRelativeDayOfYear(curdate)
        added   == ImgAddBand(ImgAddBand(ImgAddBand(ImgAddBand(ImgAddBand(image,
                       "rmean", rmean), "tminc", tminc), "tmaxc", tmaxc),
                       "tmeanc", tmeanc), "logpr", logpr)
    IN  ImgSet(ImgSet(added, "doy", curdoy), "year", curyear)

\* addvars of v1.0: adds logpr and keeps the raw bands
addvars(image) ==
    LET rmean   == BandsReduceMean(image.bands["rmax"], image.bands["rmin"])
        tminc   == BandSubtract(image.bands["tmin"], K273_15)
        tmaxc   == BandSubtract(image.bands["tmax"], K273_15)
        tmeanc  == BandsReduceMean(tminc, tmaxc)
        logpr   == BandLog(image.bands["pr"])
        curdate == image.time_start
        curyear == DateGetYear(curdate)
        curdoy  == GetRelativeDayOfYear(curdate) + 1
        added   == ImgAddBand(ImgAddBand(ImgAddBand(ImgAddBand(ImgAddBand(image,
                       "rmean", rmean), "tminc", tminc), "tmaxc", tmaxc),
                       "tmeanc", tmeanc), "logpr", logpr)
    IN  ImgSet(ImgSet(added, "doy", curdoy), "year", curyear)

\* gridmet_calc of v1.0: the images of the series
gridmet_calc_v1 == history

\* collection.filter(ee.Filter.dayOfYear(doy, doy))
FilterDayOfYear(collection, doy) ==
    SelectSeq(collection,
              LAMBDA im : GetRelativeDayOfYear(im.time_start) + 1 = doy)

\* the unmasked values of a band at a pixel, over the images of a collection
PixelValues(collection, b, p) ==
    SelectValid([i \in DOMAIN collection |-> collection[i].bands[b][p]])

\* ee.Reducer.mean() over a collection, at one pixel
CollectionMean(values) ==
    IF values = <<>> THEN NoData
    ELSE RDiv(RSum(values), Rat(Len(values), 1))

\* the sum of squared deviations from the mean
SquaredDeviations(values) ==
    LET mean == CollectionMean(values)
    IN  RSum([i \in DOMAIN values |->
                RMul(RSub(values[i], mean), RSub(values[i], mean))])

SampleStdDev(values) ==
    IF Len(values) < 2 THEN NoData
    ELSE SignedRoot(1, RDiv(SquaredDeviations(values), Rat(Len(values) - 1, 1)))

\* ee.Reducer.stdDev() over a collection, at one pixel: the population
\* standard deviation (divisor n); ee.Reducer.sampleStdDev is the other one
StdDev(values) ==
    IF values = <<>> THEN NoData
    ELSE SignedRoot(1, RDiv(SquaredDeviations(values), Rat(Len(values), 1)))

\* the bands of the image a collection reduces to: those of its images,
\* none for an empty collection
ReducedBands(collection) ==
    IF collection = <<>> THEN {} ELSE DOMAIN collection[1].bands

\* collection.reduce(ee.Reducer.mean()): bands <name>_mean
ReduceMean(collection) ==
    [index |-> NoData, time_start |-> NoData, props |-> <<>>,
     bands |-> [n \in {<<b, "mean">> : b \in ReducedBands(collection)} |->
                  [p \in Pixels |->
                      CollectionMean(PixelValues(collection, n[1], p))]]]

\* collection.reduce(ee.Reducer.stdDev()): bands <name>_stdDev
ReduceStdDev(collection) ==
    [index |-> NoData, time_start |-> NoData, props |-> <<>>,
     bands |-> [n \in {<<b, "stdDev">> : b \in ReducedBands(collection)} |->
                  [p \in Pixels |->
                      StdDev(PixelValues(collection, n[1], p))]]]

doy_list == [i \in 1 .. 366 |-> i]

mean_calcWithoutLast(doy) ==
    LET gridmet_doy == FilterDayOfYear(
                           SubSeq(gridmet_calc_v1, 1, Len(gridmet_calc_v1) - 1), doy)
        meanmet     == ReduceMean(gridmet_doy)
    IN  ImgSet(meanmet, "doy", doy)

mean_calc(doy) ==
    LET gridmet_doy == FilterDayOfYear(gridmet_calc_v1, doy)
        meanmet     == ReduceMean(gridmet_doy)
    IN  ImgSet(meanmet, "doy", doy)

stdev_calc(doy) ==
    LET gridmet_doy == FilterDayOfYear(gridmet_calc_v1, doy)
        meanmet     == ReduceStdDev(gridmet_doy)
    IN  ImgSet(meanmet, "doy", doy)

\* daily_mean.toList(..), daily_stdev.toList(..)
mean_list == [i \in DOMAIN doy_list |-> mean_calc(doy_list[i])]
stdev_list == [i \in DOMAIN doy_list |-> stdev_calc(doy_list[i])]

\* list.get(index): the index is 0-based
ListGet(list, index) == list[index + 1]

NormalizeMasksZeroDivision(value, mean, stdev) ==
    IF value = NoData \/ mean = NoData \/ stdev = NoData THEN NoData
    ELSE IF stdev[1] = 0 THEN NoData
    ELSE LET diff == RSub(value, mean)
         IN  SignedRoot(Sign(diff),
                        RDiv(RMul(diff, diff), <<stdev[2], stdev[3]>>))

NormalizeUncentred(value, mean, stdev) ==
    IF value = NoData \/ mean = NoData \/ stdev = NoData THEN NoData
    ELSE IF stdev[1] = 0 THEN <<0, 0, 1>>
    ELSE SignedRoot(Sign(value),
                    RDiv(RMul(value, value), <<stdev[2], stdev[3]>>))

\* value.subtract(mean).divide(stdev) at one pixel: masked where an input is
\* masked; a division by 0 gives 0
Normalize(value, mean, stdev) ==
    IF value = NoData \/ mean = NoData \/ stdev = NoData THEN NoData
    ELSE IF stdev[1] = 0 THEN <<0, 0, 1>>
    ELSE LET diff == RSub(value, mean)
         IN  SignedRoot(Sign(diff),
                        RDiv(RMul(diff, diff), <<stdev[2], stdev[3]>>))

\* image.select(b).subtract(cur_mean.select(b_mean))
\*      .divide(cur_stdev.select(b_stdDev))
AnomalyBand(image, cur_mean, cur_stdev, b) ==
    [p \in Pixels |->
        Normalize(image.bands[b][p],
                  cur_mean.bands[<<b, "mean">>][p],
                  cur_stdev.bands[<<b, "stdDev">>][p])]

\* anomcalc, given the values of the globals mean_list and stdev_list
anomcalcOn(image, means, stdevs) ==
    LET curdoy    == image.props["doy"]
        curindex  == curdoy - 1
        cur_mean  == ListGet(means, curindex)
        cur_stdev == ListGet(stdevs, curindex)
        tm_anom   == AnomalyBand(image, cur_mean, cur_stdev, "tmeanc")
        rhm_anom  == AnomalyBand(image, cur_mean, cur_stdev, "rmean")
        vpd_anom  == AnomalyBand(image, cur_mean, cur_stdev, "vpd")
        logpr_anom == AnomalyBand(image, cur_mean, cur_stdev, "logpr")
    IN  ImgAddBand(ImgAddBand(ImgAddBand(ImgAddBand(image,
            "tm_anom", tm_anom), "rhm_anom", rhm_anom),
            "vpd_anom", vpd_anom), "logpr_anom", logpr_anom)

anomcalc(image) == anomcalcOn(image, mean_list, stdev_list)

-----------------------------------------------------------------------------
(* Specification SpecClim: v1.0, anomcalc mapped over an image of the series *)

\* the days of the series: December 30 and 31 of each year from 2000, so that
\* day-of-year 366 has one year (2000), and 364 and 365 have more
ClimDays ==
    [i \in 1 .. (2 * ClimYears) |->
        ParseDate(<<2000 + ((i - 1) \div 2), 12, 30 + ((i - 1) % 2)>>)]

\* the image of the asset in the v1.0 series: as GridmetImage, but with the
\* precipitation of pixel p being p times that of pixel 1, so that it is 0 or
\* a power of 2 at every pixel and BandLog is exact
ClimGridmetImage(day, v) ==
    LET image == GridmetImage(day, v)
    IN  [image EXCEPT !.bands["pr"] =
            [p \in Pixels |->
                IF p \in v.masked THEN NoData ELSE Rat(v.pr * p, 100)]]

\* the image of a day of the series: tmmn as chosen; precipitation 0 in a
\* dry series, else 0, 1, 2 or 4 mm by the day
ClimRawImage(day, tmmn, dry) ==
    ClimGridmetImage(day,
        [tmmn |-> tmmn, tmmx |-> 28815, rmin |-> 3000 + 100 * (day % 3),
         pr |-> CASE dry -> 0 [] day % 4 = 0 -> 0 [] day % 4 = 1 -> 100
                  [] day % 4 = 2 -> 200 [] OTHER -> 400,
         masked |-> Pixels \ GridPixels])

ClimImage(day, tmmn, dry) == addvars(SelectVariablesV1(ClimRawImage(day, tmmn, dry)))

InitClim ==
    /\ IdleExport
    /\ IdleDerive
    /\ IdleAggregate
    /\ IdlePipeline
    /\ IdleMap
    /\ IdleStream
    /\ \E t \in [1 .. (2 * ClimYears) -> {27315, 27715}], dry \in BOOLEAN :
          history = [i \in 1 .. (2 * ClimYears) |->
                        ClimImage(ClimDays[i], t[i], dry)]
    /\ \E i \in 1 .. (2 * ClimYears) : current = <<history[i]>>
    /\ anomaly = <<>>

\* gridmet_calc.map(anomcalc) evaluated on the image
MapAnomcalc ==
    /\ Len(current) = 1
    /\ Len(anomaly) = 0
    /\ anomaly' = <<anomcalc(current[1])>>
    /\ UNCHANGED <<exportVars, deriveVars, history, current,
                   aggregateVars, pipelineVars, mapVars, streamVars>>

NextClim == MapAnomcalc

SpecClim == InitClim /\ [][NextClim]_vars

-----------------------------------------------------------------------------
(* Specification SpecScenario: v1.0 on a series of day-of-year 200 *)

\* day-of-year 200 of a year
Day200(year) == ParseDate(<<year, 1, 1>>) + 199

\* tmeanc of day-of-year 200 in 2001 .. 2006, in degrees Celsius
ScenarioTmeanc == <<10, 12, 11, 13, 14, 15>>

\* the image of a day whose tmeanc is t degrees at pixel 1
ScenarioImage(day, t) ==
    addvars(SelectVariablesV1(ClimGridmetImage(day,
        [tmmn |-> 27315 + 100 * t, tmmx |-> 27315 + 100 * t,
         rmin |-> 3000 + 100 * (day % 3), pr |-> 200,
         masked |-> Pixels \ GridPixels])))

\* the series ends in 2005 or in 2006; each year's tmeanc is that of the
\* scenario or one degree off
InitScenario ==
    /\ IdleExport
    /\ IdleDerive
    /\ IdleAggregate
    /\ IdlePipeline
    /\ IdleMap
    /\ IdleStream
    /\ \E last \in 5 .. Len(ScenarioTmeanc) :
       \E off \in [1 .. last -> {-1, 0, 1}] :
          history = [i \in 1 .. last |->
                        ScenarioImage(Day200(2000 + i), ScenarioTmeanc[i] + off[i])]
    /\ \E i \in DOMAIN history : current = <<history[i]>>
    /\ anomaly = <<>>

SpecScenario == InitScenario /\ [][NextClim]_vars

-----------------------------------------------------------------------------
(* Specification SpecStream: the climatology of the v1.0 series built in one
   pass, each frame added once to the count, sum and sum of squares of its
   day-of-year, the days-of-year being dealt out to workers *)

Workers == 1 .. NWorkers

\* the worker that holds the accumulator of a day-of-year
Shard(doy) == (doy % NWorkers) + 1

\* the bands of the frames of the series
StreamBands == DOMAIN history[1].bands

\* the accumulator of a day-of-year before its first frame
EmptyAccumulator ==
    [b \in StreamBands |->
        [p \in Pixels |-> [count |-> 0, sum |-> Zero, squares |-> Zero]]]

\* a frame added to the accumulator of its day-of-year: a masked value adds
\* nothing
Accumulate(acc, image) ==
    [b \in StreamBands |->
        [p \in Pixels |->
            LET v == image.bands[b][p]
                a == acc[b][p]
            IN  IF v = NoData THEN a
                ELSE [count   |-> a.count + 1,
                      sum     |-> RAdd(a.sum, v),
                      squares |-> RAdd(a.squares, RMul(v, v))]]]

\* a frame added to the accumulators a worker holds, under its doy property
AccumulateFrame(held, image) ==
    LET doy   == image.props["doy"]
        prior == IF doy \in DOMAIN held THEN held[doy] ELSE EmptyAccumulator
    IN  [k \in DOMAIN held \cup {doy} |->
            IF k = doy THEN Accumulate(prior, image) ELSE held[k]]

\* the entry of a day-of-year: mean S/n and standard deviation
\* sqrt(Q/n - (S/n)^2) at every pixel of every band, missing where n = 0
Finalize(acc) ==
    [mean |->
        [b \in StreamBands |->
            [p \in Pixels |->
                LET a == acc[b][p]
                IN  IF a.count = 0 THEN NoData
                    ELSE RDiv(a.sum, Rat(a.count, 1))]],
     stdDev |->
        [b \in StreamBands |->
            [p \in Pixels |->
                LET a == acc[b][p]
                    n == Rat(a.count, 1)
                IN  IF a.count = 0 THEN NoData
                    ELSE SignedRoot(1,
                             RSub(RDiv(a.squares, n),
                                  RMul(RDiv(a.sum, n), RDiv(a.sum, n))))]]]

\* the entries of all the days-of-year the workers hold
MergeAll(held) ==
    [doy \in UNION {DOMAIN held[w] : w \in DOMAIN held} |->
        Finalize(held[CHOOSE w \in DOMAIN held : doy \in DOMAIN held[w]][doy])]

RECURSIVE SequentialBuild(_, _)
\* the accumulators of one worker that takes the frames in series order
SequentialBuild(series, held) ==
    IF series = <<>> THEN held
    ELSE SequentialBuild(Tail(series), AccumulateFrame(held, Head(series)))

InitStream ==
    /\ IdleExport
    /\ IdleDerive
    /\ IdleAggregate
    /\ IdlePipeline
    /\ IdleMap
    /\ \E t \in [1 .. ClimYears -> {27315, 27715}], dry \in BOOLEAN :
          history = [i \in 1 .. (2 * ClimYears) |->
                        ClimImage(ClimDays[i], t[((i - 1) \div 2) + 1], dry)]
    /\ current = <<>> /\ anomaly = <<>>
    /\ pending = DOMAIN history
    /\ shards = [w \in Workers |-> <<>>]
    /\ merged = <<>>

\* a worker takes one of the frames not yet taken, in any order
AccumulateOne ==
    /\ \E i \in pending :
          LET w == Shard(history[i].props["doy"])
          IN  /\ shards' = [shards EXCEPT ![w] = AccumulateFrame(shards[w], history[i])]
              /\ pending' = pending \ {i}
    /\ UNCHANGED <<exportVars, deriveVars, climVars, aggregateVars, pipelineVars,
                   mapVars, merged>>

\* all frames taken: the accumulators of the workers are merged
MergeShards ==
    /\ pending = {}
    /\ merged = <<>>
    /\ merged' = <<MergeAll(shards)>>
    /\ UNCHANGED <<exportVars, deriveVars, climVars, aggregateVars, pipelineVars,
                   mapVars, pending, shards>>

NextStream ==
    \/ AccumulateOne
    \/ MergeShards

SpecStream == InitStream /\ [][NextStream]_vars

-----------------------------------------------------------------------------
(* The layers of the map *)

\* Map.addLayer(eeObject, visParams, name, shown): eeObject is <<the image
\* shown>>, or <<>> when its computation fails (no image to select a band of)
Layer(name, eeObject, shown) ==
    [name |-> name, eeObject |-> eeObject, shown |-> shown]

\* image.select(b): the band, and the image of the collection it is of
SelectBand(found, b) ==
    IF found = <<>> THEN <<>>
    ELSE <<[image |-> found[1].index, values |-> found[1].bands[b]]>>

\* empty.paint({featureCollection: collection, ..}): the outlines painted
Paint(collection) ==
    <<{collection[i].index : i \in DOMAIN collection}>>

\* showLayer of v1.0, given the images of the global gridmet_anom
showLayer_v1(anom, curyear, curdoy, curstate) ==
    LET reset == <<>>
        selectedstate == FilterState(curstate)
        img_filt == SelectSeq(anom,
                        LAMBDA im : /\ DateGetYear(im.time_start) = curyear
                                    /\ GetRelativeDayOfYear(im.time_start) + 1 = curdoy)
        img_cur  == IF img_filt = <<>> THEN <<>> ELSE <<img_filt[1]>>
        meantemp == SelectBand(img_cur, "tm_anom")
        countybound == Paint(selectedstate)
    IN  reset \o << Layer("tmeanc", meantemp, TRUE),
                    Layer("counties", countybound, TRUE) >>

\* image.reduceRegion(ee.Reducer.minMax()): the least and the greatest of
\* the unmasked values of a band
BandValues(band) == {band[p] : p \in Pixels} \ {NoData}
BandMin(band) == CHOOSE v \in BandValues(band) : \A w \in BandValues(band) : RLeq(v, w)
BandMax(band) == CHOOSE v \in BandValues(band) : \A w \in BandValues(band) : RLeq(w, v)

\* band.subtract(min).divide(max.subtract(min)); a division by 0 gives 0
Stretch(found, b) ==
    IF found = <<>> THEN <<>>
    ELSE LET band == found[1].bands[b]
             min  == BandMin(band)
             max  == BandMax(band)
         IN  <<[image  |-> found[1].index,
                values |-> [p \in Pixels |->
                              IF band[p] = NoData THEN NoData
                              ELSE IF max = min THEN Zero
                              ELSE RDiv(RSub(band[p], min), RSub(max, min))]]>>

\* collection.filterDate(start, end).first()
First(collection) == IF collection = <<>> THEN <<>> ELSE <<collection[1]>>

updateMapWithoutReset(layers, visDateArray, fipsValue) ==
    LET imgVisualized == First(FilterDate(gridmetCalculated,
                                          visDateArray[1], visDateArray[2]))
        visFips     == stateDictionary[fipsValue]
        visState    == FilterState(visFips)
        visCounties == Paint(visState)
    IN  layers \o << Layer("Relative Humidity", Stretch(imgVisualized, "rmean"), FALSE),
                     Layer("Vapor Pressure Deficit", Stretch(imgVisualized, "vpd"), FALSE),
                     Layer("Precipitation", Stretch(imgVisualized, "pr"), FALSE),
                     Layer("Temperature", Stretch(imgVisualized, "tmeanc"), TRUE),
                     Layer("counties", visCounties, TRUE) >>

\* updateMap of v2.2, given the layers of the map and the values of the date
\* slider ([date, date + 1]) and of the state selector
updateMap(layers, visDateArray, fipsValue) ==
    LET reset == <<>>
        imgVisualized == First(FilterDate(gridmetCalculated,
                                          visDateArray[1], visDateArray[2]))
        visFips     == stateDictionary[fipsValue]
        visState    == FilterState(visFips)
        visCounties == Paint(visState)
    IN  reset \o << Layer("Relative Humidity", Stretch(imgVisualized, "rmean"), FALSE),
                    Layer("Vapor Pressure Deficit", Stretch(imgVisualized, "vpd"), FALSE),
                    Layer("Precipitation", Stretch(imgVisualized, "pr"), FALSE),
                    Layer("Temperature", Stretch(imgVisualized, "tmeanc"), TRUE),
                    Layer("counties", visCounties, TRUE) >>

\* showLayer of v2.0 and v2.1, given the values of the two sliders and of the
\* state box
showLayer(curyear, curdoy, stateFIPS) ==
    LET reset == <<>>
        displaystate == FilterState(stateFIPS)
        init_date == ParseDate(<<curyear, 1, 1>>)
        img_date  == AdvanceDays(init_date, curdoy)
        img_filt  == First(FilterDate(gridmet_calc, img_date, AdvanceDays(img_date, 1)))
        countybound == Paint(displaystate)
    IN  reset \o << Layer("Relative Humidity", Stretch(img_filt, "rmean"), TRUE),
                    Layer("Vapor Pressure Deficit", Stretch(img_filt, "vpd"), TRUE),
                    Layer("Precipitation", Stretch(img_filt, "pr"), TRUE),
                    Layer("Temperature", Stretch(img_filt, "tmeanc"), TRUE),
                    Layer("counties", countybound, TRUE) >>

\* map.remove(widget): the widget leaves the map, if it is on it
MapRemove(widgets, widget) == SelectSeq(widgets, LAMBDA w : w # widget)

-----------------------------------------------------------------------------
(* Specification SpecPipeline: the v1.0 script from its first statement to
   the exports of its user *)

\* 1999-01-01, in days from 2000-01-01
startdate == 0 - 365
enddate == ParseDate(<<2018, 12, 31>>)
mystates == "46"

\* how far the script has run, in the order of its statements
Stages == <<"start", "derived", "climatology", "normalized", "table">>

ZonalBandsV1 == {"tmeanc", "tminc", "tmaxc", "pr", "rmean", "vpd", "doy", "year"}

\* zonalsum of v1.0: no vs, and the counties of the global selectedstate
zonalsum_v1(image, selectedstate) ==
    LET image2 == ImgAddBand(ImgAddBand(image,
                      "doy", ImgMetadata(image, "doy")),
                      "year", ImgMetadata(image, "year"))
        output == ReduceRegions(ImgSelect(image2, ZonalBandsV1), selectedstate)
    IN  [image |-> image.index, features |-> output]

\* texts a user of v1.0 types into the date boxes, which start empty
DateTextsV1 == {FormatDate(ParseDate(<<2000, 12, 31>>)),
                FormatDate(ParseDate(<<2002, 12, 31>>))}

InitPipeline ==
    /\ IdleDerive
    /\ IdleAggregate
    /\ version = "v1.0"
    /\ \E t \in [1 .. ClimYears -> {27315, 27715}] :
          gridmet = [i \in 1 .. (2 * ClimYears) |->
                        ClimRawImage(ClimDays[i], t[((i - 1) \div 2) + 1], FALSE)]
    /\ fipsinput = None /\ sdinput = None /\ edinput = None
    /\ task = <<>>
    /\ stage = "start"
    /\ history = <<>> /\ current = <<>> /\ anomaly = <<>>
    /\ baseline = <<>> /\ gridmet_anom = <<>>
    /\ rerun = FALSE
    /\ IdleMap
    /\ IdleStream

\* var gridmet_filt = ..; var gridmet_calc = gridmet_filt.map(addvars);
Derive ==
    /\ stage = "start"
    /\ LET filtered == FilterDate(gridmet, startdate, enddate)
       IN  history' = [i \in DOMAIN filtered |->
                          addvars(SelectVariablesV1(filtered[i]))]
    /\ stage' = "derived"
    /\ UNCHANGED <<exportVars, deriveVars, current, anomaly, aggregateVars,
                   baseline, gridmet_anom, rerun, mapVars, streamVars>>

\* var daily_mean = ..; var daily_stdev = ..; var mean_list = ..; var stdev_list = ..;
BuildClimatology ==
    /\ stage = "derived"
    /\ baseline' = <<[mean_list |-> mean_list, stdev_list |-> stdev_list]>>
    /\ stage' = "climatology"
    /\ UNCHANGED <<exportVars, deriveVars, climVars, aggregateVars, gridmet_anom,
                   rerun, mapVars, streamVars>>

\* var gridmet_anom = gridmet_calc.map(anomcalc); and the rest of the script,
\* which builds the panel and sets the sliders to 2010 and 165 and the state
\* box to 46, the last of which draws the map
MapAnomcalcOverSeries ==
    /\ stage = "climatology"
    /\ gridmet_anom' =
          [i \in DOMAIN history |->
              anomcalcOn(history[i], baseline[1].mean_list, baseline[1].stdev_list)]
    /\ fipsinput' = "46"
    /\ slider' = <<2010, 165>>
    /\ mapLayers' = showLayer_v1(gridmet_anom', 2010, 165, "46")
    /\ stage' = "normalized"
    /\ UNCHANGED <<version, gridmet, sdinput, edinput, task,
                   deriveVars, climVars, aggregateVars, baseline, rerun,
                   mapWidgets, downloadPanel, streamVars>>

\* the user types a start date
SetStartDateV1 ==
    /\ stage \in {"normalized", "table"}
    /\ \E t \in DateTextsV1 : sdinput' = t
    /\ UNCHANGED <<version, gridmet, fipsinput, edinput, task,
                   deriveVars, climVars, aggregateVars, pipelineVars, mapVars, streamVars>>

\* the user types an end date
SetEndDateV1 ==
    /\ stage \in {"normalized", "table"}
    /\ \E t \in DateTextsV1 : edinput' = t
    /\ UNCHANGED <<version, gridmet, fipsinput, sdinput, task,
                   deriveVars, climVars, aggregateVars, pipelineVars, mapVars, streamVars>>

\* click on 'Download Summary': exportzonal of v1.0; ee.Date of an empty
\* box throws and the handler ends without a task
exportzonal_v1 ==
    /\ stage \in {"normalized", "table"}
    /\ sdinput # None /\ edinput # None
    /\ LET sdtext == sdinput
           edtext == edinput
           sddate == ParseDate(sdtext)
           eddate == ParseDate(edtext)
           curstate_sum == fipsinput
           selectedstate == FilterState(mystates)
           gridmet_sum == FilterDate(history, sddate, eddate)
           cnty_sum ==
               [i \in DOMAIN gridmet_sum |-> zonalsum_v1(gridmet_sum[i], selectedstate)]
           oldnames == <<"NAME", "doy", "year",
                         "tminc", "tmeanc", "tmaxc", "pr", "rmean", "vpd">>
           newnames == <<"district", "doy", "year",
                         "tminc", "tmeanc", "tmaxc", "pr", "rmean", "vpd">>
           flat  == Flatten(cnty_sum)
           newdf == [i \in DOMAIN flat |-> SelectProperties(flat[i], oldnames, newnames)]
       IN  task' = << [collection  |-> newdf,
                       error       |-> <<>>,
                       description |-> <<"myExportTableTask">>,
                       selectors   |-> newnames,
                       state       |-> curstate_sum,
                       regions     |-> Len(selectedstate),
                       start       |-> sdtext,
                       end         |-> edtext] >>
    /\ stage' = "table"
    /\ UNCHANGED <<version, gridmet, fipsinput, sdinput, edinput,
                   deriveVars, climVars, aggregateVars, baseline, gridmet_anom,
                   rerun, mapVars, streamVars>>

\* the asset between two runs: as it was, or with the latest image
\* reprocessed (its tmmn replaced by the other value of the series)
Reprocessed(series) ==
    LET last == series[Len(series)]
        tmmn == last.bands["tmmn"][1]
        other == IF tmmn = Rat(27315, 100) THEN 27715 ELSE 27315
    IN  [series EXCEPT ![Len(series)] =
            ClimRawImage(last.time_start, other, FALSE)]

RunScriptKeepsClimatology ==
    /\ stage # "start"
    /\ stage' = "start"
    /\ \E series \in {gridmet, Reprocessed(gridmet)} : gridmet' = series
    /\ fipsinput' = None /\ sdinput' = None /\ edinput' = None
    /\ task' = <<>>
    /\ history' = <<>> /\ gridmet_anom' = <<>>
    /\ mapLayers' = <<>> /\ slider' = None
    /\ rerun' = TRUE
    /\ UNCHANGED <<version, deriveVars, current, anomaly, aggregateVars,
                   baseline, mapWidgets, downloadPanel, streamVars>>

\* the user runs the script again: every var of the script is evaluated
\* anew, on the asset as it is by then
RunScript ==
    /\ stage # "start"
    /\ stage' = "start"
    /\ \E series \in {gridmet, Reprocessed(gridmet)} : gridmet' = series
    /\ fipsinput' = None /\ sdinput' = None /\ edinput' = None
    /\ task' = <<>>
    /\ history' = <<>> /\ baseline' = <<>> /\ gridmet_anom' = <<>>
    /\ mapLayers' = <<>> /\ slider' = None
    /\ rerun' = TRUE
    /\ UNCHANGED <<version, deriveVars, current, anomaly, aggregateVars,
                   mapWidgets, downloadPanel, streamVars>>

NextPipeline ==
    \/ Derive
    \/ BuildClimatology
    \/ MapAnomcalcOverSeries
    \/ SetStartDateV1
    \/ SetEndDateV1
    \/ exportzonal_v1
    \/ RunScript

SpecPipeline == InitPipeline /\ [][NextPipeline]_vars

-----------------------------------------------------------------------------
(* Specification SpecMap: the map of the three scripts, from the state in
   which the script leaves it, under the handlers of the widgets *)

\* texts a user of v2.2 types into the start-date and end-date boxes
MapStartTexts == {FormatDate(WindowFirst), FormatDate(AdvanceMinusOneMonth(maxDate))}
MapEndTexts == {FormatDate(WindowFirst), FormatDate(maxDate)}

\* days a user of v2.2 picks on the date slider
SliderDays == {WindowFirst, maxDate}

\* positions of the year and day-of-year sliders of v1.0, v2.0 and v2.1
SliderYears == {2000, 2001}
SliderDoys == {1, 364, 365}

\* the asset of the v1.0 script: the temperature alternates by year
MapSeriesV1 ==
    [i \in 1 .. (2 * ClimYears) |->
        ClimRawImage(ClimDays[i], 27315 + 400 * (((i - 1) \div 2) % 2), FALSE)]

InitMap ==
    /\ IdleDerive
    /\ IdleAggregate
    /\ IdleStream
    /\ current = <<>> /\ anomaly = <<>>
    /\ task = <<>>
    /\ rerun = FALSE
    /\ mapWidgets = <<>>
    /\ \/ /\ version = "v2.2"
          /\ gridmet = StoreSeries(Window)
          /\ fipsinput = SouthDakota
          /\ sdinput = FormatDate(AdvanceMinusOneMonth(maxDate))
          /\ edinput = FormatDate(maxDate)
          /\ slider = maxDate
          /\ mapLayers = updateMap(<<>>, <<maxDate, AdvanceDays(maxDate, 1)>>,
                                   SouthDakota)
          /\ downloadPanel = [serial |-> 0, links |-> <<>>]
          /\ stage = None
          /\ history = <<>> /\ baseline = <<>> /\ gridmet_anom = <<>>
       \/ /\ version = "v2.1"
          /\ gridmet = StoreSeries(Window)
          /\ fipsinput = "46"
          /\ sdinput = FormatDate(AdvanceMinusOneMonth(now))
          /\ edinput = FormatDate(now)
          /\ LET defaultDownloadStart == AdvanceMinusOneMonth(now)
                 defaultDoy == GetRelativeDayOfYear(defaultDownloadStart) + 1
             IN  /\ slider = <<DateGetYear(defaultDownloadStart), defaultDoy>>
                 /\ mapLayers = showLayer(DateGetYear(defaultDownloadStart),
                                          defaultDoy, "46")
          /\ downloadPanel = None
          /\ stage = None
          /\ history = <<>> /\ baseline = <<>> /\ gridmet_anom = <<>>
       \/ /\ version = "v1.0"
          /\ gridmet = MapSeriesV1
          /\ history = [i \in DOMAIN gridmet |->
                           addvars(SelectVariablesV1(gridmet[i]))]
          /\ baseline = <<[mean_list |-> mean_list, stdev_list |-> stdev_list]>>
          /\ gridmet_anom = [i \in DOMAIN history |-> anomcalc(history[i])]
          /\ fipsinput = "46"
          /\ sdinput = None /\ edinput = None
          /\ slider = <<2010, 165>>
          /\ mapLayers = showLayer_v1(gridmet_anom, 2010, 165, "46")
          /\ downloadPanel = None
          /\ stage = "normalized"

\* v2.2: the user picks a day on the date slider (onChange: updateMap)
visualizeDateSelectorOnChange ==
    /\ version = "v2.2"
    /\ \E d \in SliderDays \ {slider} :
          /\ slider' = d
          /\ mapLayers' = updateMap(mapLayers, <<d, AdvanceDays(d, 1)>>, fipsinput)
    /\ UNCHANGED <<exportVars, deriveVars, climVars, aggregateVars, pipelineVars,
                   mapWidgets, downloadPanel, streamVars>>

\* v2.2: the user selects a state
fipsInputOnChange ==
    /\ version = "v2.2"
    /\ \E value \in DOMAIN stateDictionary \ {fipsinput} :
          /\ fipsinput' = value
          /\ mapLayers' = updateMap(mapLayers, <<slider, AdvanceDays(slider, 1)>>,
                                    value)
    /\ mapWidgets' = MapRemove(mapWidgets, downloadPanel)
    /\ UNCHANGED <<version, gridmet, sdinput, edinput, task, deriveVars, climVars,
                   aggregateVars, pipelineVars, downloadPanel, slider, streamVars>>

\* v2.2: the user edits the start-date box
startDateInputOnChange ==
    /\ version = "v2.2"
    /\ \E value \in MapStartTexts \ {sdinput} : sdinput' = value
    /\ mapWidgets' = MapRemove(mapWidgets, downloadPanel)
    /\ UNCHANGED <<version, gridmet, fipsinput, edinput, task, deriveVars, climVars,
                   aggregateVars, pipelineVars, mapLayers, downloadPanel, slider,
                   streamVars>>

\* v2.2: the user edits the end-date box
endDateInputOnChange ==
    /\ version = "v2.2"
    /\ \E value \in MapEndTexts \ {edinput} : edinput' = value
    /\ mapWidgets' = MapRemove(mapWidgets, downloadPanel)
    /\ UNCHANGED <<version, gridmet, fipsinput, sdinput, task, deriveVars, climVars,
                   aggregateVars, pipelineVars, mapLayers, downloadPanel, slider,
                   streamVars>>

\* v2.2: click on 'Click for summary downloads': exportZonal to its end.
\* getDownloadURL throws when the collection fails to evaluate, and the
\* handler ends there; else a new panel with the link becomes the global
\* downloadPanel and is added to the map
exportButtonOnClick ==
    /\ version = "v2.2"
    /\ downloadPanel.serial < MaxPanels
    /\ \E t \in exportZonalTasks :
          /\ task' = <<t>>
          /\ IF t.error = <<>>
             THEN /\ downloadPanel' = [serial |-> downloadPanel.serial + 1,
                                       links  |-> <<t.description>>]
                  /\ mapWidgets' = Append(mapWidgets, downloadPanel')
             ELSE UNCHANGED <<downloadPanel, mapWidgets>>
    /\ UNCHANGED <<version, gridmet, fipsinput, sdinput, edinput, deriveVars,
                   climVars, aggregateVars, pipelineVars, mapLayers, slider,
                   streamVars>>

\* showLayer as the script of the session defines it
Redraw(curyear, curdoy, curstate) ==
    IF version = "v1.0" THEN showLayer_v1(gridmet_anom, curyear, curdoy, curstate)
    ELSE showLayer(curyear, curdoy, curstate)

\* v1.0, v2.0, v2.1: the user moves the year slider (onChange: showLayer)
yearindexOnChange ==
    /\ version \in {"v1.0", "v2.1"}
    /\ \E curyear \in SliderYears \ {slider[1]} :
          /\ slider' = <<curyear, slider[2]>>
          /\ mapLayers' = Redraw(curyear, slider[2], fipsinput)
    /\ UNCHANGED <<exportVars, deriveVars, climVars, aggregateVars, pipelineVars,
                   mapWidgets, downloadPanel, streamVars>>

\* v1.0, v2.0, v2.1: the user moves the day-of-year slider
dateindexOnChange ==
    /\ version \in {"v1.0", "v2.1"}
    /\ \E curdoy \in SliderDoys \ {slider[2]} :
          /\ slider' = <<slider[1], curdoy>>
          /\ mapLayers' = Redraw(slider[1], curdoy, fipsinput)
    /\ UNCHANGED <<exportVars, deriveVars, climVars, aggregateVars, pipelineVars,
                   mapWidgets, downloadPanel, streamVars>>

\* v1.0, v2.0, v2.1: the user types a state code (onChange: showLayer)
fipsinputOnChange ==
    /\ version \in {"v1.0", "v2.1"}
    /\ \E curstate \in FipsTexts \ {fipsinput} :
          /\ fipsinput' = curstate
          /\ mapLayers' = Redraw(slider[1], slider[2], curstate)
    /\ UNCHANGED <<version, gridmet, sdinput, edinput, task, deriveVars, climVars,
                   aggregateVars, pipelineVars, mapWidgets, downloadPanel, slider,
                   streamVars>>

NextMap ==
    \/ visualizeDateSelectorOnChange
    \/ fipsInputOnChange
    \/ startDateInputOnChange
    \/ endDateInputOnChange
    \/ exportButtonOnClick
    \/ yearindexOnChange
    \/ dateindexOnChange
    \/ fipsinputOnChange
    \/ SetStartDateV1
    \/ SetEndDateV1
    \/ exportzonal_v1

SpecMap == InitMap /\ [][NextMap]_vars

-----------------------------------------------------------------------------
(* Properties of the derived variables, under SpecDerive *)

\* C7: in every derived frame, at every pixel that has data, tminc is
\* tmin - 273.15, tmaxc is tmax - 273.15 and tmeanc is (tminc + tmaxc) / 2;
\* a masked pixel stays masked.
C7_CelsiusAndMean ==
    Len(calcImage) = 1 =>
        LET raw  == rawImage[1].bands
            calc == calcImage[1].bands
        IN  \A p \in Pixels :
              IF raw["tmmn"][p] = NoData
              THEN /\ calc["tminc"][p] = NoData
                   /\ calc["tmaxc"][p] = NoData
                   /\ calc["tmeanc"][p] = NoData
              ELSE /\ RAdd(calc["tminc"][p], <<5463, 20>>) = raw["tmmn"][p]
                   /\ RAdd(calc["tmaxc"][p], <<5463, 20>>) = raw["tmmx"][p]
                   /\ RAdd(calc["tmeanc"][p], calc["tmeanc"][p])
                        = RAdd(calc["tminc"][p], calc["tmaxc"][p])

\* a frame of 263.15 K .. 278.15 K derived to -10 C, 5 C and their mean -2.5 C
C7_Witness ==
    /\ Len(calcImage) = 1
    /\ calcImage[1].bands["tminc"][1] = <<-10, 1>>
    /\ calcImage[1].bands["tmaxc"][1] = <<5, 1>>
    /\ calcImage[1].bands["tmeanc"][1] = <<-5, 2>>

\* C8: derivation sets rmean to the pixelwise mean of rmax and rmin, passes
\* pr, vpd and vs through with the values of the raw frame, gives the derived
\* frame exactly the seven bands rmean, tminc, tmaxc, tmeanc, pr, vpd, vs, and
\* leaves the raw frame with its own bands and no added property.
C8_DerivedBands ==
    Len(calcImage) = 1 =>
        LET raw  == rawImage[1].bands
            calc == calcImage[1].bands
        IN  /\ DOMAIN calc =
                 {"rmean", "tminc", "tmaxc", "tmeanc", "pr", "vpd", "vs"}
            /\ \A p \in Pixels :
                 IF raw["rmax"][p] = NoData THEN calc["rmean"][p] = NoData
                 ELSE RAdd(calc["rmean"][p], calc["rmean"][p])
                        = RAdd(raw["rmax"][p], raw["rmin"][p])
            /\ \A b \in {"pr", "vpd", "vs"} : calc[b] = raw[b]
            /\ DOMAIN raw = GridmetBands
            /\ DOMAIN rawImage[1].props = {}

\* a frame with rmax 80% and rmin 30.5% derived to rmean 55.25%, pr 2.5 mm kept
C8_Witness ==
    /\ Len(calcImage) = 1
    /\ calcImage[1].bands["rmean"][1] = <<221, 4>>
    /\ calcImage[1].bands["pr"][1] = <<5, 2>>
    /\ calcImage[1].bands["rmean"][2] = NoData

\* C9: the doy of every derived frame is the 1-based ordinal of the frame's
\* date within its calendar year: it lies in 1..366, is 1 on January 1, and
\* is 366 only on December 31 of a leap year.
C9_DayOfYear ==
    Len(calcImage) = 1 =>
        LET d   == calcImage[1].time_start
            doy == calcImage[1].props["doy"]
            y   == calcImage[1].props["year"]
        IN  /\ doy \in 1 .. 366
            /\ ParseDate(<<y, 1, 1>>) <= d
            /\ d < ParseDate(<<y + 1, 1, 1>>)
            /\ doy = d - ParseDate(<<y, 1, 1>>) + 1
            /\ (\E yy \in 2000 .. 2003 : d = ParseDate(<<yy, 1, 1>>)) => doy = 1
            /\ doy = 366 => IsLeap(y) /\ d = ParseDate(<<y, 12, 31>>)
            /\ (\E yy \in 2000 .. 2003 : d = ParseDate(<<yy, 12, 31>>))
                 => doy = IF IsLeap(y) THEN 366 ELSE 365

\* the frame of 2000-12-31 carries doy 366
C9_Witness ==
    /\ Len(calcImage) = 1
    /\ calcImage[1].index = <<2000, 12, 31>>
    /\ calcImage[1].props["doy"] = 366

-----------------------------------------------------------------------------
(* Properties of the exported table, under Spec *)

\* the rows of the submitted table
Rows == task[1].collection

\* the value of a column in a row; an unset property is an empty cell
Cell(row, column) ==
    IF column \in DOMAIN row.props THEN row.props[column] ELSE NoData

\* the day a row belongs to, and the county it belongs to
RowDay(row) == ParseDate(row.index[1])
RowCounty(row) == counties[CHOOSE i \in DOMAIN counties : counties[i].index = row.index[2]]
CountyPosition(row) == CHOOSE i \in DOMAIN counties : counties[i].index = row.index[2]

\* the days of the store that the submitted task asked for, with the end
\* date as each version treats it
TaskDays ==
    {gridmet[k].time_start : k \in
        {k \in DOMAIN gridmet :
            /\ ParseDate(task[1].start) <= gridmet[k].time_start
            /\ IF version = "v2.1"
               THEN gridmet[k].time_start < ParseDate(task[1].end)
               ELSE gridmet[k].time_start <= ParseDate(task[1].end)}}

\* the counties of the state the submitted task asked for
TaskCounties ==
    {i \in DOMAIN counties : counties[i].props.STATEFP = task[1].state}

VariableColumns == {"tminc", "tmeanc", "tmaxc", "pr", "rmean", "vpd", "vs"}

\* C1: an export over R regions and D available frames in the date range
\* yields exactly D x R rows, one for each (region, date) pair, and no two
\* rows share region and date.
C1_OneRowPerRegionAndDate ==
    Len(task) = 1 =>
        /\ Len(Rows) = Cardinality(TaskDays) * Cardinality(TaskCounties)
        /\ \A d \in TaskDays, c \in TaskCounties :
              Cardinality({i \in DOMAIN Rows :
                  RowDay(Rows[i]) = d /\ CountyPosition(Rows[i]) = c}) = 1
        /\ \A i, j \in DOMAIN Rows :
              i # j => Rows[i].index # Rows[j].index
        /\ version = "v2.2" =>
              \A i, j \in DOMAIN Rows :
                 (/\ Cell(Rows[i], "fips") = Cell(Rows[j], "fips")
                  /\ Cell(Rows[i], "year") = Cell(Rows[j], "year")
                  /\ Cell(Rows[i], "doy") = Cell(Rows[j], "doy")) => i = j

\* an export of two regions over three frames: six rows
C1_Witness ==
    /\ Len(task) = 1
    /\ Cardinality(TaskCounties) = 2
    /\ Cardinality(TaskDays) = 3
    /\ Len(Rows) = 6

\* C2 as stated: the end date is exclusive, a frame dated d contributes rows
\* if and only if start <= d < end, and no row is dated end.
C2_EndDateExclusive ==
    (Len(task) = 1 /\ task[1].regions > 0) =>
        \A k \in DOMAIN gridmet :
            (\E i \in DOMAIN Rows : RowDay(Rows[i]) = gridmet[k].time_start)
            <=> (/\ ParseDate(task[1].start) <= gridmet[k].time_start
                 /\ gridmet[k].time_start < ParseDate(task[1].end))

\* C2 amended: in v2.1 the end date is exclusive (rows for start <= d < end);
\* in v2.2 the handler adds one day to the end date before filtering, so the
\* end date is inclusive (rows for start <= d <= end).
C2_EndDatePerVersion ==
    (Len(task) = 1 /\ task[1].regions > 0) =>
        \A k \in DOMAIN gridmet :
            LET d == gridmet[k].time_start
                s == ParseDate(task[1].start)
                e == ParseDate(task[1].end)
            IN  (\E i \in DOMAIN Rows : RowDay(Rows[i]) = d)
                <=> IF version = "v2.1" THEN s <= d /\ d < e
                                        ELSE s <= d /\ d <= e

\* a v2.2 table with a row dated the requested end date
C2_Witness ==
    /\ Len(task) = 1
    /\ version = "v2.2"
    /\ \E i \in DOMAIN Rows : Rows[i].index[1] = task[1].end

\* the number of a region identifier (GEOID)
GeoidNumber(g) ==
    CASE g = "02110" -> 2110
      [] g = "15003" -> 15003
      [] g = "46083" -> 46083
      [] g = "46099" -> 46099

\* C3 as stated: the rows are ordered by date and then by region identifier.
C3_OrderedByDateThenRegionId ==
    Len(task) = 1 =>
        \A i, j \in DOMAIN Rows :
            i < j =>
                \/ RowDay(Rows[i]) < RowDay(Rows[j])
                \/ /\ RowDay(Rows[i]) = RowDay(Rows[j])
                   /\ GeoidNumber(RowCounty(Rows[i]).props.GEOID)
                        < GeoidNumber(RowCounty(Rows[j]).props.GEOID)

\* C3 amended: the rows follow the order of the frames in the time series
\* (which the store keeps by date, so dates never decrease down the table)
\* and, within a frame, the order of the regions in the county collection;
\* no sort by region identifier is applied.
C3_OrderedBySeriesThenCollection ==
    Len(task) = 1 =>
        \A i, j \in DOMAIN Rows :
            i < j =>
                \/ RowDay(Rows[i]) < RowDay(Rows[j])
                \/ /\ RowDay(Rows[i]) = RowDay(Rows[j])
                   /\ CountyPosition(Rows[i]) < CountyPosition(Rows[j])

\* 2000-12-30 and 2001-01-01 exported for South Dakota: Minnehaha (46099)
\* comes before Lincoln (46083) on each date
C3_Witness ==
    /\ Len(task) = 1
    /\ Len(Rows) = 4
    /\ Rows[1].index = <<<<2000, 12, 30>>, "c1">>
    /\ Rows[2].index = <<<<2000, 12, 30>>, "c2">>
    /\ Rows[3].index = <<<<2001, 1, 1>>, "c1">>
    /\ Rows[4].index = <<<<2001, 1, 1>>, "c2">>
    /\ Cell(Rows[1], "district") = "Minnehaha"
    /\ Cell(Rows[2], "district") = "Lincoln"

\* C4: a date inside the requested range for which the store has no frame
\* produces no row: every row belongs to a frame of the store and carries
\* its doy and year, and no row is dated a missing day.
C4_NoRowsForMissingDays ==
    Len(task) = 1 =>
        /\ \A i \in DOMAIN Rows :
              \E k \in DOMAIN gridmet :
                 /\ gridmet[k].index = Rows[i].index[1]
                 /\ Cell(Rows[i], "year") = Rat(gridmet[k].index[1], 1)
        /\ \A d \in Window :
              (\A k \in DOMAIN gridmet : gridmet[k].time_start # d)
                 => \A i \in DOMAIN Rows :
                       /\ RowDay(Rows[i]) # d
                       /\ ~ (/\ Cell(Rows[i], "year") = Rat(DateGetYear(d), 1)
                             /\ Cell(Rows[i], "doy")
                                  = Rat(GetRelativeDayOfYear(d) + 1, 1))

\* an export over 2000-12-30 .. 2001-01-01 from a store without 2000-12-31
C4_Witness ==
    /\ Len(task) = 1
    /\ Len(Rows) > 0
    /\ \E d \in Window :
          /\ \A k \in DOMAIN gridmet : gridmet[k].time_start # d
          /\ ParseDate(task[1].start) < d
          /\ d < ParseDate(task[1].end)
          /\ \E i, j \in DOMAIN Rows : RowDay(Rows[i]) < d /\ d < RowDay(Rows[j])

\* C5: a region of the jurisdiction with no intersecting pixel still has its
\* row for every frame date, and every variable column of that row is empty
\* (missing), never zero; a region with pixels has a value in each.
C5_EmptyRegionRowIsMissing ==
    Len(task) = 1 =>
        /\ \A d \in TaskDays, c \in TaskCounties :
              \E i \in DOMAIN Rows :
                  RowDay(Rows[i]) = d /\ CountyPosition(Rows[i]) = c
        /\ \A i \in DOMAIN Rows :
              IF \A p \in GridPixels : RowCounty(Rows[i]).cover[p] = 0
              THEN \A col \in VariableColumns :
                      /\ Cell(Rows[i], col) = NoData
                      /\ Cell(Rows[i], col) # Zero
              ELSE \A col \in VariableColumns : Cell(Rows[i], col) # NoData

\* an export of Alaska: a row for Juneau whose variables are all empty
C5_Witness ==
    /\ Len(task) = 1
    /\ \E i \in DOMAIN Rows :
          /\ Cell(Rows[i], "district") = "Juneau"
          /\ \A col \in VariableColumns : Cell(Rows[i], col) = NoData

\* C6 as stated: an export whose jurisdiction code matches zero regions
\* never completes normally; it fails with UnknownJurisdictionError.
C6_UnknownJurisdictionFails ==
    Len(task) = 1 => task[1].regions > 0

\* C6 amended: an export whose jurisdiction code matches zero regions (a code
\* typed into the v2.1 state box; the v2.2 selector offers only states that
\* have counties) completes normally: the task is submitted with an empty
\* table, the schema as selectors, and no error.
C6_UnknownJurisdictionEmptyTable ==
    Len(task) = 1 =>
        /\ task[1].regions = Cardinality(TaskCounties)
        /\ task[1].regions = 0 =>
              /\ version = "v2.1"
              /\ Rows = <<>>
              /\ Len(task[1].selectors) = 10
        /\ version = "v2.2" => task[1].regions > 0

\* the v2.1 task submitted for state code 999 over a range that holds frames
C6_Witness ==
    /\ Len(task) = 1
    /\ version = "v2.1"
    /\ task[1].state = "999"
    /\ task[1].regions = 0
    /\ TaskDays # {}
    /\ Rows = <<>>

-----------------------------------------------------------------------------
(* Properties of the climatology and the anomalies, under SpecClim *)

\* the number of years that contribute a frame to a day-of-year group
GroupYears(doy) == Len(FilterDayOfYear(history, doy))

AnomalyNames ==
    [tmeanc |-> "tm_anom", rmean |-> "rhm_anom", vpd |-> "vpd_anom",
     logpr |-> "logpr_anom"]

\* a standard deviation that is a number and is not negative
IsNonNegativeRoot(x) == Len(x) = 3 /\ x[1] \in {0, 1} /\ x[2] >= 0 /\ x[3] > 0

\* C10 as stated: a day-of-year group with fewer than 2 contributing years has
\* a standard-deviation frame of missing values, every group with 2 or more
\* years has a standard deviation >= 0, and an anomaly normalised against a
\* group with fewer than 2 years is missing, never finite.
C10_StdDevMissingBelowTwoYears ==
    Len(anomaly) = 1 =>
        /\ \A doy \in DOMAIN stdev_list :
              LET sd == stdev_calc(doy).bands
              IN  \A n \in DOMAIN sd : \A p \in GridPixels :
                     IF GroupYears(doy) < 2 THEN sd[n][p] = NoData
                     ELSE sd[n][p] # NoData => IsNonNegativeRoot(sd[n][p])
        /\ GroupYears(current[1].props["doy"]) < 2 =>
              \A b \in DOMAIN AnomalyNames : \A p \in GridPixels :
                 anomaly[1].bands[AnomalyNames[b]][p] = NoData

\* C10 as the code has it: ee.Reducer.stdDev is the population standard
\* deviation, so a group with exactly one contributing year has standard
\* deviation 0 wherever that year has a value, and every group with one or
\* more years has a standard deviation >= 0 wherever a year has a value; a
\* group without a frame reduces to an image without bands; a mapped frame
\* always belongs to its own group, and normalised against a one-year group
\* it gets the anomaly 0 wherever it has a value (0 divided by 0 is 0), and a
\* missing anomaly elsewhere.
C10_PopulationStdDev ==
    Len(anomaly) = 1 =>
        /\ \A doy \in DOMAIN stdev_list :
              LET sd    == stdev_calc(doy).bands
                  group == FilterDayOfYear(history, doy)
              IN  /\ GroupYears(doy) = 0 => DOMAIN sd = {}
                  /\ GroupYears(doy) >= 1 =>
                        /\ DOMAIN sd = {<<b, "stdDev">> : b \in DOMAIN history[1].bands}
                        /\ \A n \in DOMAIN sd : \A p \in GridPixels :
                              IF PixelValues(group, n[1], p) = <<>>
                              THEN sd[n][p] = NoData
                              ELSE /\ IsNonNegativeRoot(sd[n][p])
                                   /\ GroupYears(doy) = 1 => sd[n][p] = <<0, 0, 1>>
        /\ GroupYears(current[1].props["doy"]) >= 1
        /\ GroupYears(current[1].props["doy"]) = 1 =>
              \A b \in DOMAIN AnomalyNames : \A p \in GridPixels :
                 anomaly[1].bands[AnomalyNames[b]][p] =
                    IF current[1].bands[b][p] = NoData THEN NoData
                    ELSE <<0, 0, 1>>

\* a frame of a one-year group (day 366) normalised to the anomaly 0, while a
\* group of several years has a positive standard deviation and another frame
\* of it a nonzero anomaly
C10_Witness ==
    /\ Len(anomaly) = 1
    /\ current[1].props["doy"] = 366
    /\ GroupYears(366) = 1
    /\ stdev_calc(366).bands[<<"tmeanc", "stdDev">>][1] = <<0, 0, 1>>
    /\ anomaly[1].bands["tm_anom"][1] = <<0, 0, 1>>
    /\ current[1].bands["logpr"][1] # NoData
    /\ anomaly[1].bands["logpr_anom"][1] = <<0, 0, 1>>
    /\ GroupYears(365) >= 2
    /\ stdev_calc(365).bands[<<"tmeanc", "stdDev">>][1][1] = 1


-----------------------------------------------------------------------------
(* The standard deviation of the scenario, under SpecScenario *)

\* tmeanc at pixel 1 of the images of the series
SeriesTmeanc == [i \in DOMAIN history |-> history[i].bands["tmeanc"][1]]

IsScenario(n) ==
    /\ Len(history) = n
    /\ \A i \in 1 .. n :
          /\ SeriesTmeanc[i] = Rat(ScenarioTmeanc[i], 1)
          /\ DateGetYear(history[i].time_start) = 2000 + i
          /\ history[i].props["doy"] = 200

Tmeanc200Mean == mean_calc(200).bands[<<"tmeanc", "mean">>][1]
Tmeanc200StdDev == stdev_calc(200).bands[<<"tmeanc", "stdDev">>][1]

\* C11 as stated: the standard deviation is the sample one: for tmeanc
\* 10, 12, 11, 13, 14 over 2001-2005 the mean is 12 and the variance 10/4, and
\* a 2006 frame of tmeanc 15 has the anomaly 3 / sqrt(10/4) = sqrt(18/5).
C11_SampleStdDev ==
    /\ IsScenario(5) =>
          Tmeanc200Mean = Rat(12, 1) /\ Tmeanc200StdDev = <<1, 5, 2>>
    /\ (IsScenario(6) /\ current = <<history[6]>> /\ Len(anomaly) = 1) =>
          anomaly[1].bands["tm_anom"][1] = <<1, 18, 5>>

\* C11 as the code has it: the standard deviation is the population one
\* (divisor n): n^2 * variance = n * (sum of squares) - (sum)^2 in every group;
\* for 10, 12, 11, 13, 14 over 2001-2005 the mean is 12 and the variance 10/5;
\* a 2006 frame of tmeanc 15 is itself one of the years of its group, whose
\* mean is then 25/2 and variance 35/12, and its anomaly is
\* (5/2) / sqrt(35/12) = sqrt(15/7).
C11_PopulationStdDevScenario ==
    LET n  == Rat(Len(history), 1)
        sq == [i \in DOMAIN history |-> RMul(SeriesTmeanc[i], SeriesTmeanc[i])]
        sd == Tmeanc200StdDev
    IN  /\ Len(sd) = 3
        /\ RMul(RMul(n, n), <<sd[2], sd[3]>>) =
              RSub(RMul(n, RSum(sq)), RMul(RSum(SeriesTmeanc), RSum(SeriesTmeanc)))
        /\ IsScenario(5) =>
              Tmeanc200Mean = Rat(12, 1) /\ sd = <<1, 2, 1>>
        /\ IsScenario(6) =>
              /\ Tmeanc200Mean = Rat(25, 2) /\ sd = <<1, 35, 12>>
              /\ (current = <<history[6]>> /\ Len(anomaly) = 1) =>
                    anomaly[1].bands["tm_anom"][1] = <<1, 15, 7>>

\* the 2006 frame of the scenario, normalised
C11_Witness ==
    /\ IsScenario(6)
    /\ current = <<history[6]>>
    /\ Len(anomaly) = 1
    /\ anomaly[1].bands["tm_anom"][1] = <<1, 15, 7>>


-----------------------------------------------------------------------------
(* Normalisation against a zero or missing standard deviation, under SpecClim *)

\* the baseline of the mapped frame: the entries of its day-of-year
CurMean(b, p) ==
    ListGet(mean_list, current[1].props["doy"] - 1).bands[<<b, "mean">>][p]
CurStdDev(b, p) ==
    ListGet(stdev_list, current[1].props["doy"] - 1).bands[<<b, "stdDev">>][p]

\* C12 as stated: for every band and pixel, when the baseline standard
\* deviation of the frame's day-of-year is zero or missing, the anomaly is
\* missing and never a finite number.
C12_ZeroStdDevGivesMissing ==
    Len(anomaly) = 1 =>
        \A b \in DOMAIN AnomalyNames : \A p \in Pixels :
            CurStdDev(b, p) \in {NoData, <<0, 0, 1>>} =>
                anomaly[1].bands[AnomalyNames[b]][p] = NoData

\* C12 as the code has it: for every band and pixel, when the baseline
\* standard deviation is missing the anomaly is missing; when it is zero the
\* anomaly is the finite number 0 wherever the frame has a value (a division
\* by 0 gives 0) and missing where the frame has none; the frame always gets
\* its four anomaly bands.
C12_ZeroStdDevGivesZero ==
    Len(anomaly) = 1 =>
        /\ DOMAIN anomaly[1].bands =
              DOMAIN current[1].bands \cup {AnomalyNames[b] : b \in DOMAIN AnomalyNames}
        /\ \A b \in DOMAIN AnomalyNames : \A p \in Pixels :
              LET a == anomaly[1].bands[AnomalyNames[b]][p]
              IN  /\ CurStdDev(b, p) = NoData => a = NoData
                  /\ CurStdDev(b, p) = <<0, 0, 1>> =>
                        a = IF current[1].bands[b][p] = NoData THEN NoData
                            ELSE <<0, 0, 1>>

\* a frame of a group of several years, all with the same tmeanc (standard
\* deviation 0, anomaly 0) and all without precipitation (the standard
\* deviation of logpr missing, the anomaly missing)
C12_Witness ==
    /\ Len(anomaly) = 1
    /\ GroupYears(current[1].props["doy"]) >= 2
    /\ CurStdDev("tmeanc", 1) = <<0, 0, 1>>
    /\ anomaly[1].bands["tm_anom"][1] = <<0, 0, 1>>
    /\ CurStdDev("logpr", 1) = NoData
    /\ anomaly[1].bands["logpr_anom"][1] = NoData
    /\ CurStdDev("rmean", 2)[1] = 1

-----------------------------------------------------------------------------
(* A frame at the mean of its day-of-year, under SpecScenario *)

\* C13: a frame whose value in a band, at a pixel, equals the mean of its
\* day-of-year there gets the anomaly 0 in that band, for every band whose
\* standard deviation is not zero.
C13_AnomalyOfMeanIsZero ==
    Len(anomaly) = 1 =>
        \A b \in DOMAIN AnomalyNames : \A p \in Pixels :
            (/\ current[1].bands[b][p] # NoData
             /\ current[1].bands[b][p] = CurMean(b, p)
             /\ CurStdDev(b, p) # NoData
             /\ CurStdDev(b, p) # <<0, 0, 1>>) =>
                anomaly[1].bands[AnomalyNames[b]][p] = <<0, 0, 1>>

\* the 2002 frame of the scenario over 2001-2005: tmeanc 12 is the mean, the
\* standard deviation is sqrt(2), the anomaly 0
C13_Witness ==
    /\ IsScenario(5)
    /\ current = <<history[2]>>
    /\ Len(anomaly) = 1
    /\ current[1].bands["tmeanc"][1] = CurMean("tmeanc", 1)
    /\ CurStdDev("tmeanc", 1) = <<1, 2, 1>>
    /\ anomaly[1].bands["tm_anom"][1] = <<0, 0, 1>>


-----------------------------------------------------------------------------
(* The aggregate of a constant frame, under SpecAggregate *)

\* the pixels of the frame's band b that count in the polygon
Intersecting(b) ==
    {p \in Pixels : polygon[1].cover[p] > 0 /\ frame[1].bands[b][p] # NoData}

\* C14: a band with the same value v at every pixel aggregates to exactly v
\* over a polygon with at least one intersecting unmasked pixel, whatever the
\* weights of the pixels; so do the constant bands doy and year.
C14_ConstantFrameAggregate ==
    Len(reduced) = 1 =>
        /\ \A b \in CalcBands \ {"pr"} :
              Intersecting(b) # {} =>
                 /\ b \in DOMAIN reduced[1].props
                 /\ \A p \in Intersecting(b) :
                       reduced[1].props[b] = frame[1].bands[b][p]
        /\ (\E p \in Pixels : polygon[1].cover[p] > 0) =>
              /\ reduced[1].props["doy"] = Rat(frame[1].props["doy"], 1)
              /\ reduced[1].props["year"] = Rat(frame[1].props["year"], 1)

\* a polygon that covers pixel 1 wholly, pixel 2 by half and the masked pixel
\* 3 wholly: tmeanc 1/3 aggregates to 1/3, while pr, which is not constant,
\* aggregates to neither of its two values
C14_Witness ==
    /\ Len(reduced) = 1
    /\ polygon[1].cover = [p \in Pixels |-> CASE p = 1 -> 2 [] p = 2 -> 1 [] OTHER -> 2]
    /\ frame[1].bands["tmeanc"] =
          [p \in Pixels |-> IF p = 3 THEN NoData ELSE Rat(1, 3)]
    /\ reduced[1].props["tmeanc"] = Rat(1, 3)
    /\ reduced[1].props["pr"] = Rat(5, 3)


-----------------------------------------------------------------------------
(* The columns of the exported table, under Spec *)

Columns11 ==
    <<"district", "fips", "doy", "year",
      "tminc", "tmeanc", "tmaxc", "pr", "rmean", "vpd", "vs">>

Columns10 ==
    <<"district", "doy", "year",
      "tminc", "tmeanc", "tmaxc", "pr", "rmean", "vpd", "vs">>

\* C15 as stated: the columns of the exported table are district, fips, doy,
\* year, tminc, tmeanc, tmaxc, pr, rmean, vpd, vs in that order, and every
\* row carries the region identifier (fips) and the display name (district).
C15_ElevenColumns ==
    Len(task) = 1 =>
        /\ task[1].selectors = Columns11
        /\ \A i \in DOMAIN Rows :
              "fips" \in DOMAIN Rows[i].props /\ "district" \in DOMAIN Rows[i].props

\* the columns of a row hold what their names say: the county's name and
\* identifier, the day-of-year and year of the row's day, and the zonal means
\* of the bands of those names
RowIsRenamedByPosition(row) ==
    LET county == RowCounty(row)
        day    == RowDay(row)
        image  == Calculated(gridmet[CHOOSE k \in DOMAIN gridmet :
                                        gridmet[k].time_start = day])
    IN  /\ row.props["district"] = county.props["NAME"]
        /\ version = "v2.2" => row.props["fips"] = county.props["GEOID"]
        /\ Cell(row, "doy") = Rat(GetRelativeDayOfYear(day) + 1, 1)
        /\ Cell(row, "year") = Rat(DateGetYear(day), 1)
        /\ \A b \in VariableColumns :
              Cell(row, b) = WeightedMean(image.bands[b], county.cover)

\* C15 as the code has it: in v2.2 the columns are district, fips, doy, year,
\* tminc, tmeanc, tmaxc, pr, rmean, vpd, vs in that order, and every row
\* carries fips and district; in v2.1 the columns are the same without fips
\* (ten of them), and every row carries district but no region identifier. In
\* both the selectors of the export are the renamed names, a row has no
\* property but those, and each holds the value of the old name at its
\* position.
C15_ColumnsPerVersion ==
    Len(task) = 1 =>
        /\ task[1].selectors = IF version = "v2.2" THEN Columns11 ELSE Columns10
        /\ \A i \in DOMAIN Rows :
              /\ DOMAIN Rows[i].props \subseteq
                    {task[1].selectors[j] : j \in DOMAIN task[1].selectors}
              /\ "district" \in DOMAIN Rows[i].props
              /\ "fips" \in DOMAIN Rows[i].props <=> version = "v2.2"
              /\ RowIsRenamedByPosition(Rows[i])

\* a v2.1 table with a row of Minnehaha: district without fips
C15_Witness ==
    /\ Len(task) = 1
    /\ version = "v2.1"
    /\ task[1].selectors = Columns10
    /\ \E i \in DOMAIN Rows :
          /\ Rows[i].props["district"] = "Minnehaha"
          /\ "fips" \notin DOMAIN Rows[i].props
          /\ Cell(Rows[i], "vs") # NoData


-----------------------------------------------------------------------------
(* A frame that lacks a band, under SpecBroken *)

\* the images of the store the submitted task asked for
TaskImages ==
    SelectSeq(gridmet, LAMBDA im : im.time_start \in TaskDays)

\* those of them that lack a band the scripts select
TaskImagesLacking ==
    SelectSeq(TaskImages, LAMBDA im : ~(RequiredBands \subseteq DOMAIN im.bands))

RowDays == {RowDay(Rows[i]) : i \in DOMAIN Rows}

\* C16 as stated: when a frame of the run lacks a required band, only that
\* frame is skipped: every other frame of the run is present in the output
\* table, and the run does not abort.
C16_MissingBandSkipsFrame ==
    (Len(task) = 1 /\ TaskImagesLacking # <<>>) =>
        /\ task[1].error = <<>>
        /\ \A i \in DOMAIN TaskImages :
              TaskImages[i].time_start \in RowDays
                 <=> RequiredBands \subseteq DOMAIN TaskImages[i].bands

\* C16 as the code has it: when a frame of the requested range lacks a band
\* that select([..]) names, the evaluation of the whole export fails with the
\* error of that frame and band, and the table has no row of any frame; an
\* export that fails never has rows; a frame that lacks a band the scripts
\* do not read is derived and aggregated like the others.
C16_MissingBandFailsExport ==
    Len(task) = 1 =>
        /\ TaskImagesLacking # <<>> =>
              /\ task[1].error =
                    <<[image |-> TaskImagesLacking[1].index,
                       band  |-> CHOOSE b \in RequiredBands :
                                    b \notin DOMAIN TaskImagesLacking[1].bands]>>
              /\ Rows = <<>>
        /\ task[1].error # <<>> => Rows = <<>>
        /\ (\A k \in DOMAIN gridmet : RequiredBands \subseteq DOMAIN gridmet[k].bands) =>
              /\ task[1].error = <<>>
              /\ RowDays = TaskDays
              /\ Len(Rows) = Cardinality(TaskDays) * Cardinality(TaskCounties)

\* an export of three frames, the second of which lacks rmax: the export has
\* failed and the table has no row of the two other frames
C16_Witness ==
    /\ Len(task) = 1
    /\ Len(TaskImages) = 3
    /\ Len(TaskImagesLacking) = 1
    /\ TaskImagesLacking[1] = TaskImages[2]
    /\ task[1].error = <<[image |-> TaskImages[2].index, band |-> "rmax"]>>
    /\ Rows = <<>>


-----------------------------------------------------------------------------
(* The order of the stages, under SpecPipeline *)

StageRank == CHOOSE i \in DOMAIN Stages : Stages[i] = stage

\* the values of band b at pixel p over all the derived frames of day-of-year
\* doy, found by their doy property
FramesOfDoy(doy) == SelectSeq(history, LAMBDA im : im.props["doy"] = doy)
ValuesOfDoy(doy, b, p) ==
    SelectValid([i \in DOMAIN FramesOfDoy(doy) |-> FramesOfDoy(doy)[i].bands[b][p]])

\* a mean that is the sum of all the values of its day-of-year over their
\* number
IsMeanOfAll(mean, values) ==
    IF values = <<>> THEN mean = NoData
    ELSE RMul(mean, Rat(Len(values), 1)) = RSum(values)

\* an anomaly of x that is (x - S/n) / sqrt(Q/n - (S/n)^2), S and Q being the
\* sum and the sum of squares of all n values of its day-of-year
IsAnomalyAgainstAll(a, x, values) ==
    LET n == Rat(Len(values), 1)
        S == RSum(values)
        Q == RSum([i \in DOMAIN values |-> RMul(values[i], values[i])])
        num == RSub(RMul(n, x), S)
        den == RSub(RMul(n, Q), RMul(S, S))
    IN  IF x = NoData \/ values = <<>> THEN a = NoData
        ELSE IF den = Zero THEN a = <<0, 0, 1>>
        ELSE a = SignedRoot(Sign(num), RDiv(RMul(num, num), den))

\* C18: the stages run in the order derive, build climatology, normalize,
\* aggregate and build table: derived frames exist from the first stage on,
\* the baseline from the second, the anomalies from the third, a table only
\* after all three; the baseline, once built, is that of all the derived
\* frames of each day-of-year, and every anomaly is the normalisation of its
\* frame against the mean and standard deviation of all of them.
C18_StagesInOrder ==
    /\ history # <<>> <=> StageRank >= 2
    /\ baseline # <<>> <=> StageRank >= 3
    /\ gridmet_anom # <<>> <=> StageRank >= 4
    /\ task # <<>> <=> StageRank = 5
    /\ history # <<>> => Len(history) = Len(gridmet)
    /\ baseline # <<>> =>
          \A doy \in DOMAIN baseline[1].mean_list :
             LET means == baseline[1].mean_list[doy].bands
             IN  IF FramesOfDoy(doy) = <<>> THEN DOMAIN means = {}
                 ELSE \A b \in DOMAIN AnomalyNames : \A p \in GridPixels :
                         IsMeanOfAll(means[<<b, "mean">>][p], ValuesOfDoy(doy, b, p))
    /\ gridmet_anom # <<>> =>
          /\ Len(gridmet_anom) = Len(history)
          /\ \A i \in DOMAIN history :
                \A b \in DOMAIN AnomalyNames : \A p \in GridPixels :
                   IsAnomalyAgainstAll(gridmet_anom[i].bands[AnomalyNames[b]][p],
                                       history[i].bands[b][p],
                                       ValuesOfDoy(history[i].props["doy"], b, p))

\* a run that has built its table after the three other stages, with an
\* anomaly of the last frame that is not 0
C18_Witness ==
    /\ stage = "table"
    /\ Len(task) = 1
    /\ Len(Rows) > 0
    /\ Len(gridmet_anom) = Len(gridmet)
    /\ Len(FramesOfDoy(365)) >= 3
    /\ gridmet_anom[Len(gridmet_anom)].bands["tm_anom"][1][1] = 1

-----------------------------------------------------------------------------
(* The one-pass build against the per-day-of-year build, under SpecStream *)

\* the day-of-year of the date of a frame
CalendarDoy(image) == GetRelativeDayOfYear(image.time_start) + 1

C22_ShardedEqualsSequential ==
    /\ [](merged # <<>> =>
            merged[1] = MergeAll(<<SequentialBuild(history, <<>>)>>))
    /\ [][\A w \in Workers :
            \A doy \in DOMAIN shards'[w] :
               (doy \notin DOMAIN shards[w] \/ shards'[w][doy] # shards[w][doy]) =>
                  \E i \in pending \ pending' :
                     /\ pending \ pending' = {i}
                     /\ CalendarDoy(history[i]) = doy
                     /\ Shard(doy) = w]_vars

\* the frames were taken in an order other than that of the series: both
\* frames of the last year before any of the first year, on two workers
C22_Witness ==
    /\ pending = {1, 2}
    /\ DOMAIN shards[1] # {} /\ DOMAIN shards[2] # {}
    /\ \E w \in Workers : 365 \in DOMAIN shards[w] /\ shards[w][365]["tmeanc"][1].count = 2

-----------------------------------------------------------------------------
(* The climatology over the run and across runs, under SpecPipeline *)

\* C23: within a run of the v1.0 script the climatology, once built, is never
\* changed: normalising the series, the edits of the date boxes and the
\* exports leave every mean and standard-deviation image as it was; a new
\* run starts without the derived frames, the climatology and the anomalies
\* of the run before, and whenever a run holds a climatology it is the one of
\* all the frames derived from the asset as that run found it.
C23_ClimatologyFixedAndRebuilt ==
    /\ [](/\ (history # <<>> =>
                history = [i \in DOMAIN gridmet |->
                              addvars(SelectVariablesV1(gridmet[i]))])
           /\ (baseline # <<>> =>
                baseline[1] = [mean_list |-> mean_list, stdev_list |-> stdev_list]))
    /\ [][/\ ((baseline # <<>> /\ stage' # "start") => baseline' = baseline)
          /\ (stage' = "start" =>
                (history' = <<>> /\ baseline' = <<>> /\ gridmet_anom' = <<>>))]_vars

\* a second run that has normalised its series and exported a table, with
\* its climatology in place
C23_Witness ==
    /\ rerun
    /\ stage = "table"
    /\ Len(task) = 1 /\ Len(Rows) > 0
    /\ baseline # <<>>
    /\ Len(gridmet_anom) = Len(gridmet)

-----------------------------------------------------------------------------
(* The entry the normaliser reads, under SpecPipeline *)

\* the frames of the series dated day-of-year k
DatedDoy(k) == SelectSeq(history, LAMBDA im : CalendarDoy(im) = k)

\* C24: for every k in 1..366 the entries at index k-1 of mean_list and
\* stdev_list are tagged doy = k, and the frames ee.Filter.dayOfYear groups
\* under k are exactly the frames whose doy property is k (k = 366, the last
\* day of a leap year, included); so the anomaly of a frame dated day-of-year
\* k is its normalisation against the mean and standard deviation of exactly
\* the frames dated day-of-year k.
C24_EntryOfDoy ==
    /\ baseline # <<>> =>
          \A k \in 1 .. 366 :
             /\ ListGet(baseline[1].mean_list, k - 1).props["doy"] = k
             /\ ListGet(baseline[1].stdev_list, k - 1).props["doy"] = k
             /\ FilterDayOfYear(gridmet_calc_v1, k) = FramesOfDoy(k)
    /\ gridmet_anom # <<>> =>
          \A i \in DOMAIN history :
             LET k == CalendarDoy(history[i])
             IN  /\ history[i].props["doy"] = k
                 /\ \A b \in DOMAIN AnomalyNames : \A p \in Pixels :
                       gridmet_anom[i].bands[AnomalyNames[b]][p] =
                          Normalize(history[i].bands[b][p],
                                    CollectionMean(PixelValues(DatedDoy(k), b, p)),
                                    StdDev(PixelValues(DatedDoy(k), b, p)))

\* a normalised series with the frame of the last day of a leap year, whose
\* entry, at index 365, is built from that frame alone, and with a frame of
\* day-of-year 365 that differs from the mean of its three frames
C24_Witness ==
    /\ gridmet_anom # <<>>
    /\ history[2].time_start = ParseDate(<<2000, 12, 31>>)
    /\ history[2].props["doy"] = 366
    /\ ListGet(baseline[1].mean_list, 365).props["doy"] = 366
    /\ Len(FramesOfDoy(366)) = 1
    /\ ListGet(baseline[1].mean_list, 365).bands[<<"tmeanc", "mean">>][1] =
          history[2].bands["tmeanc"][1]
    /\ gridmet_anom[2].bands["tm_anom"][1] = <<0, 0, 1>>
    /\ Len(FramesOfDoy(365)) = 3
    /\ gridmet_anom[1].bands["tm_anom"][1][1] # 0

-----------------------------------------------------------------------------
(* The states outside the conterminous United States, under Spec *)

\* the state codes 2, 15, 60, 66, 69, 72 and 78 as the reference data stores
\* them in STATEFP: strings of two digits
ExcludedStatefp == {"02", "15", "60", "66", "69", "72", "78"}

\* C25 (as claimed): in v2.2 no state whose code is in the excluded set can
\* be selected (none being a key of stateDictionary), and no exported row
\* belongs to a county of one.
C25_ExcludedStateNotSelectable ==
    version = "v2.2" =>
        /\ stateDictionary[fipsinput] \notin ExcludedStatefp
        /\ task # <<>> =>
               \A i \in DOMAIN Rows :
                  RowCounty(Rows[i]).props.STATEFP \notin ExcludedStatefp

-----------------------------------------------------------------------------
(* The date columns of the exported table, under Spec *)

\* the image of the store a row was aggregated from
RowFrame(row) == gridmet[CHOOSE k \in DOMAIN gridmet : gridmet[k].index = row.index[1]]

\* C26: in every row of an exported table the year column is the calendar
\* year of the date of the frame the row was aggregated from, and the doy
\* column is the number of that date among the days of that year, counted
\* from 1; this holds for every county of the state, also for one that no
\* pixel of the grid intersects.
C26_DoyAndYearOfFrame ==
    (task # <<>> /\ task[1].error = <<>>) =>
        \A i \in DOMAIN Rows :
            LET d == RowFrame(Rows[i]).time_start
            IN  \E y \in 2000 .. 2002 :
                   /\ ParseDate(<<y, 1, 1>>) <= d
                   /\ d < ParseDate(<<y + 1, 1, 1>>)
                   /\ Cell(Rows[i], "year") = Rat(y, 1)
                   /\ Cell(Rows[i], "doy") = Rat(d - ParseDate(<<y, 1, 1>>) + 1, 1)

\* a table with a row of day 366 of 2000 and a row of day 1 of 2001 for a
\* county that no pixel of the grid intersects, whose variables are missing
C26_Witness ==
    /\ Len(task) = 1 /\ task[1].error = <<>>
    /\ \E i, j \in DOMAIN Rows :
          /\ RowCounty(Rows[i]).props.NAME = "Juneau"
          /\ Cell(Rows[i], "tmeanc") = NoData
          /\ Cell(Rows[i], "doy") = Rat(366, 1)
          /\ Cell(Rows[i], "year") = Rat(2000, 1)
          /\ RowCounty(Rows[j]).props.NAME = "Juneau"
          /\ Cell(Rows[j], "doy") = Rat(1, 1)
          /\ Cell(Rows[j], "year") = Rat(2001, 1)

-----------------------------------------------------------------------------
(* The download panels, the exported rows and the layers, under SpecMap *)

\* the name exportZonal gives the file of a download made from the current
\* values of the state selector and the two date boxes
CurrentFilename ==
    <<"gridmet", "_", RemoveWhitespace(fipsinput), "_", sdinput, "_", edinput>>

\* C27 (as claimed): in v2.2 every download panel on the map was generated
\* from the current values of the state selector, the start-date box and the
\* end-date box.
C27_PanelsAreCurrent ==
    version = "v2.2" =>
        \A i \in DOMAIN mapWidgets : mapWidgets[i].links = <<CurrentFilename>>

\* C28 (as claimed): every row of an exported table belongs to a county whose
\* state code is the state given in the state input when the export button
\* was clicked.
C28_RowsOfInputState ==
    task # <<>> =>
        \A i \in DOMAIN Rows :
            RowCounty(Rows[i]).props.STATEFP = task[1].state

\* the frame of gridmet_calc a layer shows
ShownFrame(layer) ==
    gridmet_calc[CHOOSE k \in DOMAIN gridmet_calc :
                    gridmet_calc[k].index = layer.eeObject[1].image]

\* C29 (as claimed): in the v2.0/v2.1 viewer, with the sliders at year y and
\* day-of-year k, each weather layer shows the frame whose year property is y
\* and whose doy property is k: it shows that frame when the series has it,
\* and never a frame of another day or year.
C29_ShowsFrameOfSlider ==
    version = "v2.1" =>
        \A i \in 1 .. 4 :
            /\ mapLayers[i].eeObject # <<>> =>
                  /\ ShownFrame(mapLayers[i]).props["year"] = slider[1]
                  /\ ShownFrame(mapLayers[i]).props["doy"] = slider[2]
            /\ (\E k \in DOMAIN gridmet_calc :
                    /\ gridmet_calc[k].props["year"] = slider[1]
                    /\ gridmet_calc[k].props["doy"] = slider[2]) =>
                  mapLayers[i].eeObject # <<>>

\* the names of the layers of v2.2 and the bands they show
LayerNames == <<"Relative Humidity", "Vapor Pressure Deficit", "Precipitation",
                "Temperature", "counties">>
LayerBands == <<"rmean", "vpd", "pr", "tmeanc">>

\* the frame of gridmetCalculated dated the day the date slider is at
SliderFrame ==
    gridmetCalculated[CHOOSE k \in DOMAIN gridmetCalculated :
                         gridmetCalculated[k].time_start = slider]

\* C30: in v2.2, after every handler, the map holds exactly five layers,
\* named Relative Humidity, Vapor Pressure Deficit, Precipitation,
\* Temperature and counties in this order; each of the first four shows its
\* band of the frame dated the day the date slider is at, stretched from its
\* least to its greatest value, and the fifth the outlines of exactly the
\* counties of the state the selector is at.
C30_FiveCurrentLayers ==
    version = "v2.2" =>
        /\ Len(mapLayers) = 5
        /\ \A i \in 1 .. 5 : mapLayers[i].name = LayerNames[i]
        /\ \A i \in 1 .. 4 :
              LET band == SliderFrame.bands[LayerBands[i]]
                  span == RSub(BandMax(band), BandMin(band))
              IN  /\ mapLayers[i].eeObject # <<>>
                  /\ mapLayers[i].eeObject[1].image = SliderFrame.index
                  /\ \A p \in Pixels :
                        LET shown == mapLayers[i].eeObject[1].values[p]
                        IN  IF band[p] = NoData THEN shown = NoData
                            ELSE IF span = Zero THEN shown = Zero
                            ELSE RMul(shown, span) = RSub(band[p], BandMin(band))
        /\ mapLayers[5].eeObject =
              <<{counties[c].index : c \in
                   {c \in DOMAIN counties :
                       counties[c].props.STATEFP = stateDictionary[fipsinput]}}>>

\* the map after the slider and the selector have both been moved and a
\* download panel is on the map
C30_Witness ==
    /\ version = "v2.2"
    /\ slider = WindowFirst
    /\ fipsinput = <<"Alaska">>
    /\ Len(mapWidgets) > 0
    /\ Len(mapLayers) = 5
    /\ mapLayers[4].eeObject[1].image = FormatDate(WindowFirst)
    /\ mapLayers[4].eeObject[1].values[2] = Rat(1, 1)
    /\ mapLayers[5].eeObject = <<{"c3"}>>


=============================================================================
